---- MODULE Spec2Model ----
(***************************************************************************)
(* Wall-junction geometry of Kitchen-studio: junction detection, true      *)
(* miter corners, bevel corners, floor polygon and wall-union tracing.     *)
(*                                                                         *)
(* Numbers are exact rationals [n, d] in lowest terms (d > 0).  The code   *)
(* computes in IEEE doubles; the model computes the same expressions in    *)
(* exact arithmetic.  Math.sqrt is exact on squares of rationals (every    *)
(* wall of the input sets has an integer length) and rounded down to       *)
(* hundredths elsewhere.  Distances that the code only compares are        *)
(* compared by their squares.                                              *)
(*                                                                         *)
(* A value used several times is passed to a helper operator as an         *)
(* argument, so that it is written (and evaluated) once.                   *)
(***************************************************************************)
EXTENDS Integers, Sequences, FiniteSets, TLC

VARIABLES walls, pc, op, junctions, corners, floor, beveled,
          groups, group, outerEdges, polygon, remainingEdges, iterations,
          tolerance, simplified, lines, result, request, outcome,
          floorPlan, history, historyIndex, currentTool, isDrawing,
          drawingStartPoint, drawingEndPoint, undone

\* the argument and the result of simplifyPolygon, the arguments and the
\* result of lineIntersection / calculateMiterPoint
\* the state of the floor-plan store, and the floor plan its last undo replaced
storeVars == <<floorPlan, history, historyIndex, currentTool, isDrawing,
               drawingStartPoint, drawingEndPoint, undone>>

utilVars == <<tolerance, simplified, lines, result, request, outcome, storeVars>>

\* what the geometry functions work on
geometryVars == <<walls, junctions, corners, floor, beveled, groups, group,
                  outerEdges, polygon, remainingEdges, iterations>>

vars == <<walls, pc, op, junctions, corners, floor, beveled,
          groups, group, outerEdges, polygon, remainingEdges, iterations,
          tolerance, simplified, lines, result, request, outcome,
          floorPlan, history, historyIndex, currentTool, isDrawing,
          drawingStartPoint, drawingEndPoint, undone>>

(***************************************************************************)
(* Exact rational arithmetic.                                              *)
(***************************************************************************)
Abs(x) == IF x < 0 THEN -x ELSE x

RECURSIVE GCD(_, _)
GCD(a, b) == IF b = 0 THEN a ELSE GCD(b, a % b)

NormBy(n, d, g) ==
  IF d < 0 THEN [n |-> (-n) \div g, d |-> (-d) \div g]
  ELSE [n |-> n \div g, d |-> d \div g]

Norm(n, d) == NormBy(n, d, GCD(Abs(n), Abs(d)))

Q(i) == [n |-> i, d |-> 1]

QAddBy(a, b, g) == Norm(a.n * (b.d \div g) + b.n * (a.d \div g), a.d * (b.d \div g))

QAdd(a, b) == QAddBy(a, b, GCD(a.d, b.d))

QNeg(a) == [n |-> -a.n, d |-> a.d]

QSub(a, b) == QAdd(a, QNeg(b))

QMulBy(a, b, g1, g2) == Norm((a.n \div g1) * (b.n \div g2), (a.d \div g2) * (b.d \div g1))

QMul(a, b) == QMulBy(a, b, GCD(Abs(a.n), b.d), GCD(Abs(b.n), a.d))

QInv(b) == IF b.n < 0 THEN [n |-> -b.d, d |-> -b.n] ELSE [n |-> b.d, d |-> b.n]

QDiv(a, b) == QMul(a, QInv(b))

QLtBy(a, b, g) == a.n * (b.d \div g) < b.n * (a.d \div g)

QLt(a, b) == QLtBy(a, b, GCD(a.d, b.d))

QLe(a, b) == ~QLt(b, a)

QAbs(a) == [n |-> Abs(a.n), d |-> a.d]

QSq(a) == [n |-> a.n * a.n, d |-> a.d * a.d]

QHalf(a) == IF a.n % 2 = 0 THEN [n |-> a.n \div 2, d |-> a.d] ELSE [n |-> a.n, d |-> 2 * a.d]

RECURSIVE ISqrtIn(_, _, _)
\* the largest k in lo..hi with k * k <= n (lo * lo <= n is given)
ISqrtIn(n, lo, hi) ==
  IF lo >= hi THEN lo
  ELSE IF ((lo + hi + 1) \div 2) * ((lo + hi + 1) \div 2) <= n
       THEN ISqrtIn(n, (lo + hi + 1) \div 2, hi)
       ELSE ISqrtIn(n, lo, ((lo + hi + 1) \div 2) - 1)

ISqrt(n) == ISqrtIn(n, 0, IF n < 46340 THEN n ELSE 46340)

QSqrtBy(a, rn, rd) ==
  IF rn * rn = a.n /\ rd * rd = a.d THEN [n |-> rn, d |-> rd]
  ELSE Norm(ISqrt((a.n \div a.d) * 10000 + ((a.n % a.d) * 10000) \div a.d), 100)

\* Math.sqrt: exact on squares of rationals, else rounded down to hundredths
QSqrt(a) == QSqrtBy(a, ISqrt(a.n), ISqrt(a.d))

(***************************************************************************)
(* Points and walls.                                                       *)
(***************************************************************************)
Pt(x, y) == [x |-> x, y |-> y]

IPt(i, j) == [x |-> [n |-> i, d |-> 1], y |-> [n |-> j, d |-> 1]]

PAdd(p, q) == Pt(QAdd(p.x, q.x), QAdd(p.y, q.y))

PSub(p, q) == Pt(QSub(p.x, q.x), QSub(p.y, q.y))

PScale(p, k) == Pt(QMul(p.x, k), QMul(p.y, k))

Wall(id, s, e, t) == [id |-> id, start |-> s, end |-> e, thickness |-> Q(t)]

\* the square of distanceBetweenPoints(p1, p2)
distanceBetweenPointsSq(p1, p2) ==
  QAdd(QSq(QSub(p2.x, p1.x)), QSq(QSub(p2.y, p1.y)))

\* distanceBetweenPoints(p1, p2) < t, for an integer t >= 0
DistLt(p1, p2, t) == QLt(distanceBetweenPointsSq(p1, p2), Q(t * t))

\* distanceBetweenPoints(p1, p2) <= t, for an integer t >= 0
DistLe(p1, p2, t) == QLe(distanceBetweenPointsSq(p1, p2), Q(t * t))

(***************************************************************************)
(* Sequence helpers (Array.find, Array.filter, [...new Set(...)]).         *)
(***************************************************************************)
RECURSIVE SetToSortedSeq(_)
SetToSortedSeq(S) ==
  IF S = {} THEN <<>>
  ELSE <<CHOOSE x \in S : \A y \in S : x <= y>>
         \o SetToSortedSeq(S \ {CHOOSE x \in S : \A y \in S : x <= y})

Range(s) == {s[i] : i \in DOMAIN s}

\* index of the first element satisfying Test, 0 when there is none
FirstIdx(s, Test(_)) ==
  IF \E i \in DOMAIN s : Test(s[i])
  THEN CHOOSE i \in DOMAIN s : Test(s[i]) /\ \A j \in 1..(i - 1) : ~Test(s[j])
  ELSE 0

\* the distinct elements of s in order of first appearance
Dedup(s) ==
  LET first == {i \in DOMAIN s : \A j \in 1..(i - 1) : s[j] # s[i]}
  IN  [k \in 1..Cardinality(first) |->
         s[CHOOSE i \in first : Cardinality({j \in first : j < i}) = k - 1]]

RECURSIVE SumSeq(_)
SumSeq(s) == IF s = <<>> THEN Q(0) ELSE QAdd(s[1], SumSeq(Tail(s)))

(***************************************************************************)
(* Program constants.                                                      *)
(***************************************************************************)
JunctionTolerance == 1

BevelTolerance == 2

LookupTolerance == 2

MiterFactor == 3

UnionTolerance == 2

DefaultInset == 2

\* 0.0001, below which a determinant counts as zero
ParallelEps == [n |-> 1, d |-> 10000]

\* 0.3, below which two unit directions count as perpendicular
PerpendicularLimit == [n |-> 3, d |-> 10]

(***************************************************************************)
(* detectJunctions (wallJunctions and wallMiter share the clustering).     *)
(***************************************************************************)
\* the endpoints of the walls, wall by wall, start before end
endpoints(ws) ==
  [k \in 1..(2 * Len(ws)) |->
     [point |-> IF k % 2 = 1 THEN ws[(k + 1) \div 2].start ELSE ws[(k + 1) \div 2].end,
      wallId |-> ws[(k + 1) \div 2].id,
      widx |-> (k + 1) \div 2,
      isStart |-> (k % 2 = 1)]]

\* absorbed with a strict comparison against the tolerance
absorbedStrict(pts, tol, i, processed) ==
  {j \in (i + 1)..Len(pts) :
     j \notin processed /\ DistLt(pts[i].point, pts[j].point, tol)}

\* the inner loop: the later, unprocessed endpoints within tol of the seed i
absorbed(pts, tol, i, processed) ==
  {j \in (i + 1)..Len(pts) :
     j \notin processed /\ DistLe(pts[i].point, pts[j].point, tol)}

RECURSIVE clusterFrom(_, _, _, _)
\* clusterWith absorbing also what is within tol of an absorbed endpoint
clusterWithChained(pts, tol, i, processed, near) ==
  <<(<<i>> \o SetToSortedSeq(near \cup UNION {absorbed(pts, tol, m, processed \cup {i}) : m \in near}))>>
    \o clusterFrom(pts, tol, i + 1,
         processed \cup {i} \cup near \cup UNION {absorbed(pts, tol, m, processed \cup {i}) : m \in near})

\* one seed: its cluster, then the clusters of the later seeds
clusterWith(pts, tol, i, processed, near) ==
  <<(<<i>> \o SetToSortedSeq(near))>>
    \o clusterFrom(pts, tol, i + 1, processed \cup {i} \cup near)

\* the outer loop from seed index i on: every cluster, in seed order
clusterFrom(pts, tol, i, processed) ==
  IF i > Len(pts) THEN <<>>
  ELSE IF i \in processed THEN clusterFrom(pts, tol, i + 1, processed)
  ELSE clusterWith(pts, tol, i, processed, absorbed(pts, tol, i, processed))

avgPoint(pts, cluster) ==
  Pt(QDiv(SumSeq([k \in DOMAIN cluster |-> pts[cluster[k]].point.x]), Q(Len(cluster))),
     QDiv(SumSeq([k \in DOMAIN cluster |-> pts[cluster[k]].point.y]), Q(Len(cluster))))

\* the clusters of two or more endpoints
junctionClusters(pts, tol) ==
  SelectSeq(clusterFrom(pts, tol, 1, {}), LAMBDA c : Len(c) >= 2)

junctionsOf(pts, cs) ==
  [k \in DOMAIN cs |->
     [point   |-> avgPoint(pts, cs[k]),
      wallIds |-> Dedup([m \in DOMAIN cs[k] |-> pts[cs[k][m]].wallId])]]

junctionsOn(pts, tol) == junctionsOf(pts, junctionClusters(pts, tol))

\* wallJunctions.detectJunctions
detectJunctions(ws, tol) == junctionsOn(endpoints(ws), tol)

bevelJunctionsOf(ws, pts, cs) ==
  [k \in DOMAIN cs |->
     [point |-> avgPoint(pts, cs[k]),
      walls |-> [m \in DOMAIN cs[k] |->
                   [wall |-> ws[pts[cs[k][m]].widx],
                    isStart |-> pts[cs[k][m]].isStart]]]]

bevelJunctionsOn(ws, pts, tol) == bevelJunctionsOf(ws, pts, junctionClusters(pts, tol))

\* wallMiter.detectJunctions: the same clusters, members kept with isStart
detectJunctionsBevel(ws, tol) == bevelJunctionsOn(ws, endpoints(ws), tol)

(***************************************************************************)
(* calculateWallCorners and getAdjustedWallCorners (true miter).           *)
(***************************************************************************)
wallLength(wall) == QSqrt(distanceBetweenPointsSq(wall.start, wall.end))

\* (-dy / length, dx / length)
perpBy(wall, length) ==
  Pt(QDiv(QNeg(QSub(wall.end.y, wall.start.y)), length),
     QDiv(QSub(wall.end.x, wall.start.x), length))

wallPerp(wall) == perpBy(wall, wallLength(wall))

\* (dx / length, dy / length)
dirBy(wall, length) ==
  Pt(QDiv(QSub(wall.end.x, wall.start.x), length),
     QDiv(QSub(wall.end.y, wall.start.y), length))

wallDir(wall) == dirBy(wall, wallLength(wall))

cornersBy(wall, off) ==
  <<PAdd(wall.start, off), PSub(wall.start, off), PSub(wall.end, off), PAdd(wall.end, off)>>

\* <<corner1, corner2, corner3, corner4>>
calculateWallCorners(wall) ==
  cornersBy(wall, PScale(wallPerp(wall), QHalf(wall.thickness)))

NoPoint == [isNull |-> TRUE, p |-> IPt(0, 0)]

\* no lookup of a wall was asked for
NoRequest == [wallId |-> "", wallIds |-> {}]

SomePoint(p) == [isNull |-> FALSE, p |-> p]

(***************************************************************************)
(* The floor-plan store (stores/floorPlanStore.ts).  A floor plan is a     *)
(* record of its metadata name, walls, doors and windows; a wall carries   *)
(* the cutouts of the doors and windows placed on it.  The selection and   *)
(* the timestamps are left out: no operation reads them.                   *)
(***************************************************************************)
NoFloorPlan == [isNull |-> TRUE, name |-> "", walls |-> <<>>, doors |-> <<>>, windows |-> <<>>]

maxHistorySize == 50

\* the store as it is constructed, and as clearFloorPlan leaves it
initialState ==
  /\ floorPlan = NoFloorPlan
  /\ history = <<>>
  /\ historyIndex = -1
  /\ currentTool = "select"
  /\ isDrawing = FALSE
  /\ drawingStartPoint = NoPoint
  /\ drawingEndPoint = NoPoint
  /\ undone = NoFloorPlan

pointAlong(s, t, dx, dy) == Pt(QAdd(s.x, QMul(t, dx)), QAdd(s.y, QMul(t, dy)))

\* intersectBy taking only a zero determinant for parallel
intersectByExact(e1s, e2s, dx1, dy1, dx2, dy2, denominator) ==
  IF denominator.n = 0 THEN NoPoint
  ELSE SomePoint(pointAlong(e1s,
         QDiv(QSub(QMul(QSub(e2s.x, e1s.x), dy2), QMul(QSub(e2s.y, e1s.y), dx2)),
              denominator),
         dx1, dy1))

intersectBy(e1s, e2s, dx1, dy1, dx2, dy2, denominator) ==
  IF QLt(QAbs(denominator), ParallelEps) THEN NoPoint
  ELSE SomePoint(pointAlong(e1s,
         QDiv(QSub(QMul(QSub(e2s.x, e1s.x), dy2), QMul(QSub(e2s.y, e1s.y), dx2)),
              denominator),
         dx1, dy1))

intersectDirs(e1s, e2s, dx1, dy1, dx2, dy2) ==
  intersectBy(e1s, e2s, dx1, dy1, dx2, dy2, QSub(QMul(dx1, dy2), QMul(dy1, dx2)))

\* the intersection of the infinite lines e1s-e1e and e2s-e2e
calculateMiterPoint(e1s, e1e, e2s, e2e) ==
  intersectDirs(e1s, e2s, QSub(e1e.x, e1s.x), QSub(e1e.y, e1s.y),
                QSub(e2e.x, e2s.x), QSub(e2e.y, e2s.y))

maxMiterExtension(wall) == QMul(wall.thickness, Q(MiterFactor))

clampBy(p, originalCorner, maxExt, distance) ==
  Pt(QAdd(originalCorner.x, QMul(QDiv(QSub(p.x, originalCorner.x), distance), maxExt)),
     QAdd(originalCorner.y, QMul(QDiv(QSub(p.y, originalCorner.y), distance), maxExt)))

\* limitBy without the clamp
limitByNothing(p, originalCorner, maxExt, d2) == p

limitBy(p, originalCorner, maxExt, d2) ==
  IF QLt(QSq(maxExt), d2) THEN clampBy(p, originalCorner, maxExt, QSqrt(d2))
  ELSE p

\* limitMiterPoint handing back the missing miter point itself
limitMiterPointUnchecked(miterPoint, originalCorner, maxExt) ==
  IF miterPoint.isNull THEN miterPoint.p
  ELSE limitBy(miterPoint.p, originalCorner, maxExt,
               distanceBetweenPointsSq(originalCorner, miterPoint.p))

limitMiterPoint(miterPoint, originalCorner, maxExt) ==
  IF miterPoint.isNull THEN originalCorner
  ELSE limitBy(miterPoint.p, originalCorner, maxExt,
               distanceBetweenPointsSq(originalCorner, miterPoint.p))

\* the junction the corner resolvers use for an endpoint: the first within 2
junctionAt(js, p) == FirstIdx(js, LAMBDA j : DistLt(j.point, p, LookupTolerance))

\* the walls of allWalls named by the junction, other than wall
otherWallsOf(allWalls, ids) ==
  [k \in DOMAIN ids |-> allWalls[FirstIdx(allWalls, LAMBDA w : w.id = ids[k])]]

otherWalls(wall, allWalls, junction) ==
  otherWallsOf(allWalls,
    SelectSeq(junction.wallIds,
              LAMBDA id : id # wall.id /\ \E i \in DOMAIN allWalls : allWalls[i].id = id))

\* the two edge lines of a wall, each directed away from the junction end
edgeLinesOf(c, atStart) ==
  IF atStart
  THEN [e1s |-> c[1], e1e |-> c[4], e2s |-> c[2], e2e |-> c[3]]
  ELSE [e1s |-> c[4], e1e |-> c[1], e2s |-> c[3], e2e |-> c[2]]

edgeLines(w, atStart) == edgeLinesOf(calculateWallCorners(w), atStart)

\* miterEnd meeting each edge line with the opposite edge line of the other wall
miterEndCrossed(isStart, cs, base, c, o, mx) ==
  IF isStart
  THEN [cs EXCEPT
          ![1] = limitMiterPoint(calculateMiterPoint(c.e1s, c.e1e, o.e2s, o.e2e), base[1], mx),
          ![2] = limitMiterPoint(calculateMiterPoint(c.e2s, c.e2e, o.e1s, o.e1e), base[2], mx)]
  ELSE [cs EXCEPT
          ![4] = limitMiterPoint(calculateMiterPoint(c.e1s, c.e1e, o.e2s, o.e2e), base[4], mx),
          ![3] = limitMiterPoint(calculateMiterPoint(c.e2s, c.e2e, o.e1s, o.e1e), base[3], mx)]

\* the corners of one end replaced by the limited miter points
miterEnd(isStart, cs, base, c, o, mx) ==
  IF isStart
  THEN [cs EXCEPT
          ![1] = limitMiterPoint(calculateMiterPoint(c.e1s, c.e1e, o.e1s, o.e1e), base[1], mx),
          ![2] = limitMiterPoint(calculateMiterPoint(c.e2s, c.e2e, o.e2s, o.e2e), base[2], mx)]
  ELSE [cs EXCEPT
          ![4] = limitMiterPoint(calculateMiterPoint(c.e1s, c.e1e, o.e1s, o.e1e), base[4], mx),
          ![3] = limitMiterPoint(calculateMiterPoint(c.e2s, c.e2e, o.e2s, o.e2e), base[3], mx)]

\* the miter against the first other wall of the junction
miterAgainst(wall, otherWall, isStart, junction, cs, base) ==
  miterEnd(isStart, cs, base, edgeLinesOf(base, isStart),
           edgeLines(otherWall, DistLt(otherWall.start, junction.point, LookupTolerance)),
           maxMiterExtension(wall))

adjustWith(wall, others, isStart, junction, cs, base) ==
  IF Len(others) = 0 THEN cs
  ELSE miterAgainst(wall, others[1], isStart, junction, cs, base)

adjustWallEndForMiter(wall, allWalls, isStart, junction, cs, base) ==
  adjustWith(wall, otherWalls(wall, allWalls, junction), isStart, junction, cs, base)

\* one end of getAdjustedWallCorners: j is the index of the junction found
adjustEnd(wall, allWalls, js, isStart, j, cs, base) ==
  IF j # 0 /\ Len(js[j].wallIds) >= 2
  THEN adjustWallEndForMiter(wall, allWalls, isStart, js[j], cs, base)
  ELSE cs

adjustBoth(wall, allWalls, js, base) ==
  adjustEnd(wall, allWalls, js, FALSE, junctionAt(js, wall.end),
            adjustEnd(wall, allWalls, js, TRUE, junctionAt(js, wall.start), base, base),
            base)

getAdjustedWallCorners(wall, allWalls, js) ==
  adjustBoth(wall, allWalls, js, calculateWallCorners(wall))

(***************************************************************************)
(* calculateMiteredWallCorners (the bevel resolver of wallMiter).          *)
(***************************************************************************)
\* the unit direction of the wall pointing away from the given end
getWallDirection(wall, isStart) ==
  IF isStart THEN wallDir(wall) ELSE PScale(wallDir(wall), Q(-1))

dot(u, v) == QAdd(QMul(u.x, v.x), QMul(u.y, v.y))

crossProduct(u, v) == QSub(QMul(u.x, v.y), QMul(u.y, v.x))

\* bevelCorners with 0.25 for the perpendicular limit
bevelCornersNarrow(wall, point, dir, otherDir, left, right) ==
  IF ~QLt(QAbs(dot(dir, otherDir)), Norm(1, 4)) THEN <<left, right>>
  ELSE IF QLt(Q(0), crossProduct(dir, otherDir))
       THEN <<PAdd(point, PScale(dir, QHalf(wall.thickness))), right>>
       ELSE <<left, PAdd(point, PScale(dir, QHalf(wall.thickness)))>>

\* <<left, right>> with one corner replaced when the walls are perpendicular
bevelCorners(wall, point, dir, otherDir, left, right) ==
  IF ~QLt(QAbs(dot(dir, otherDir)), PerpendicularLimit) THEN <<left, right>>
  ELSE IF QLt(Q(0), crossProduct(dir, otherDir))
       THEN <<PAdd(point, PScale(dir, QHalf(wall.thickness))), right>>
       ELSE <<left, PAdd(point, PScale(dir, QHalf(wall.thickness)))>>

bevelAgainst(wall, isStart, junction, o, left, right) ==
  IF o = 0 THEN <<left, right>>
  ELSE bevelCorners(wall, junction.point, getWallDirection(wall, isStart),
                    getWallDirection(junction.walls[o].wall, junction.walls[o].isStart),
                    left, right)

bevelAt(wall, isStart, js, j, left, right) ==
  IF j = 0 THEN <<left, right>>
  ELSE IF Len(js[j].walls) < 2 THEN <<left, right>>
  ELSE bevelAgainst(wall, isStart, js[j],
                    FirstIdx(js[j].walls, LAMBDA w : w.wall.id # wall.id), left, right)

\* the corners of one end after beveling: <<left corner, right corner>>,
\* that is <<corner1, corner2>> at the start and <<corner4, corner3>> at the end
bevelEnd(wall, isStart, js, left, right) ==
  bevelAt(wall, isStart, js,
          FirstIdx(js, LAMBDA x : DistLt(x.point, IF isStart THEN wall.start ELSE wall.end,
                                         LookupTolerance)),
          left, right)

\* bevelOrder listing the end corners as corner4, corner3
bevelOrderCrossed(wall, s, e) == [wallId |-> wall.id, corners |-> <<s[1], s[2], e[1], e[2]>>]

bevelOrder(wall, s, e) == [wallId |-> wall.id, corners |-> <<s[1], s[2], e[2], e[1]>>]

bevelWith(wall, js, base) ==
  bevelOrder(wall, bevelEnd(wall, TRUE, js, base[1], base[2]),
             bevelEnd(wall, FALSE, js, base[4], base[3]))

bevelWall(wall, js) == bevelWith(wall, js, calculateWallCorners(wall))

bevelAll(ws, js) == [i \in DOMAIN ws |-> bevelWall(ws[i], js)]

calculateMiteredWallCorners(ws) == bevelAll(ws, detectJunctionsBevel(ws, BevelTolerance))

(***************************************************************************)
(* getFloorPolygon.                                                        *)
(***************************************************************************)
NullPolygon == [isNull |-> TRUE, pts |-> <<>>]

calculateWallsCenter(ws) ==
  Pt(QDiv(SumSeq([i \in DOMAIN ws |-> QAdd(ws[i].start.x, ws[i].end.x)]), Q(2 * Len(ws))),
     QDiv(SumSeq([i \in DOMAIN ws |-> QAdd(ws[i].start.y, ws[i].end.y)]), Q(2 * Len(ws))))

midpoint(a, b) == Pt(QHalf(QAdd(a.x, b.x)), QHalf(QAdd(a.y, b.y)))

\* getInnerEdgeIndices choosing the edge farther from the centre
getOuterEdgeIndices(wallCorners, roomCenter) ==
  IF Len(wallCorners) # 4 THEN <<2, 3>>
  ELSE IF QLt(distanceBetweenPointsSq(midpoint(wallCorners[2], wallCorners[3]), roomCenter),
              distanceBetweenPointsSq(midpoint(wallCorners[1], wallCorners[4]), roomCenter))
       THEN <<1, 4>>
       ELSE <<2, 3>>

\* the corner indices (1-based) of the edge whose midpoint is nearer the centre
getInnerEdgeIndices(wallCorners, roomCenter) ==
  IF Len(wallCorners) # 4 THEN <<2, 3>>
  ELSE IF QLt(distanceBetweenPointsSq(midpoint(wallCorners[2], wallCorners[3]), roomCenter),
              distanceBetweenPointsSq(midpoint(wallCorners[1], wallCorners[4]), roomCenter))
       THEN <<2, 3>>
       ELSE <<1, 4>>

lineIntersection(l1s, l1e, l2s, l2e) ==
  intersectDirs(l1s, l2s, QSub(l1e.x, l1s.x), QSub(l1e.y, l1s.y),
                QSub(l2e.x, l2s.x), QSub(l2e.y, l2s.y))

insetBy(point, dx, dy, distance, insetDistance) ==
  IF distance.n = 0 THEN point
  ELSE Pt(QAdd(point.x, QMul(QDiv(dx, distance), insetDistance)),
          QAdd(point.y, QMul(QDiv(dy, distance), insetDistance)))

insetDelta(point, dx, dy, insetDistance) ==
  insetBy(point, dx, dy, QSqrt(QAdd(QSq(dx), QSq(dy))), insetDistance)

insetPoint(point, center, insetDistance) ==
  insetDelta(point, QSub(center.x, point.x), QSub(center.y, point.y), insetDistance)

insetPolygon(poly, center, insetDistance) ==
  [i \in DOMAIN poly |-> insetPoint(poly[i], center, insetDistance)]

\* where Math.atan2(v.y, v.x) lies: 1 below the x axis, 2 at 0, 3 above, 4 at pi
angleClass(v) ==
  IF v.y.n < 0 THEN 1
  ELSE IF v.y.n > 0 THEN 3
  ELSE IF v.x.n < 0 THEN 4
  ELSE 2

\* Math.atan2(u.y, u.x) < Math.atan2(v.y, v.x)
angleLt(u, v) ==
  \/ angleClass(u) < angleClass(v)
  \/ /\ angleClass(u) = angleClass(v)
     /\ u.y.n # 0
     /\ QLt(Q(0), crossProduct(u, v))

insertAt(r, x, k) ==
  IF k = 0 THEN Append(r, x)
  ELSE SubSeq(r, 1, k - 1) \o <<x>> \o SubSeq(r, k, Len(r))

insertByAngle(r, x) == insertAt(r, x, FirstIdx(r, LAMBDA e : angleLt(x.angle, e.angle)))

RECURSIVE sortByAngle(_)
\* innerEdges.sort((a, b) => a.angle - b.angle), a stable sort
sortByAngle(es) ==
  IF Len(es) <= 1 THEN es
  ELSE insertByAngle(sortByAngle(SubSeq(es, 1, Len(es) - 1)), es[Len(es)])

innerEdgeBy(wall, s, e, roomCenter) ==
  [wallId |-> wall.id, start |-> s, end |-> e, angle |-> PSub(midpoint(s, e), roomCenter)]

innerEdgeOf(wall, cs, idx, roomCenter) ==
  innerEdgeBy(wall, cs[idx[1]], cs[idx[2]], roomCenter)

innerEdgeOn(wall, cs, roomCenter) ==
  innerEdgeOf(wall, cs, getInnerEdgeIndices(cs, roomCenter), roomCenter)

\* the inner edge of one wall, with the direction of its midpoint from the centre
innerEdge(wall, ws, js, roomCenter) ==
  innerEdgeOn(wall, getAdjustedWallCorners(wall, ws, js), roomCenter)

fallbackCorner(currentEdge, nextEdge) ==
  IF QLt(distanceBetweenPointsSq(currentEdge.start, nextEdge.start),
         distanceBetweenPointsSq(currentEdge.end, nextEdge.start))
  THEN currentEdge.start
  ELSE currentEdge.end

cornerBy(currentEdge, nextEdge, intersection) ==
  IF ~intersection.isNull THEN intersection.p
  ELSE fallbackCorner(currentEdge, nextEdge)

\* the floor corner of one consecutive pair of inner edges
floorCorner(currentEdge, nextEdge) ==
  cornerBy(currentEdge, nextEdge,
           lineIntersection(currentEdge.start, currentEdge.end, nextEdge.start, nextEdge.end))

floorCornersOf(innerEdges) ==
  [i \in DOMAIN innerEdges |->
     floorCorner(innerEdges[i], innerEdges[(i % Len(innerEdges)) + 1])]

floorResult(floorCorners, roomCenter, insetDistance) ==
  IF Len(floorCorners) < 3 THEN NullPolygon
  ELSE IF insetDistance.n # 0
  THEN [isNull |-> FALSE, pts |-> insetPolygon(floorCorners, roomCenter, insetDistance)]
  ELSE [isNull |-> FALSE, pts |-> floorCorners]

\* floorFromEdges accepting two inner edges
floorFromTwoEdges(innerEdges, roomCenter, insetDistance) ==
  IF Len(innerEdges) < 2 THEN NullPolygon
  ELSE [isNull |-> FALSE,
        pts |-> insetPolygon(floorCornersOf(sortByAngle(innerEdges)), roomCenter,
                             insetDistance)]

floorFromEdges(innerEdges, roomCenter, insetDistance) ==
  IF Len(innerEdges) < 3 THEN NullPolygon
  ELSE floorResult(floorCornersOf(sortByAngle(innerEdges)), roomCenter, insetDistance)

floorFrom(ws, js, roomCenter, insetDistance) ==
  floorFromEdges([i \in DOMAIN ws |-> innerEdge(ws[i], ws, js, roomCenter)],
                 roomCenter, insetDistance)

getFloorPolygon(ws, insetDistance) ==
  IF Len(ws) < 2 THEN NullPolygon
  ELSE floorFrom(ws, detectJunctions(ws, JunctionTolerance), calculateWallsCenter(ws),
                 insetDistance)

(***************************************************************************)
(* Wall union: edges, outer edges, connected groups.                       *)
(***************************************************************************)
RECURSIVE Flatten(_)
Flatten(ss) == IF ss = <<>> THEN <<>> ELSE ss[1] \o Flatten(Tail(ss))

\* the edges between consecutive corners of every wall, wrapping
wallEdges(bw) ==
  Flatten([w \in DOMAIN bw |->
             [i \in 1..Len(bw[w].corners) |->
                [start |-> bw[w].corners[i],
                 end |-> bw[w].corners[(i % Len(bw[w].corners)) + 1],
                 wallId |-> bw[w].wallId]]])

\* hasOpposite that never finds an opposite edge
hasOppositeNever(edges, i) == FALSE

\* another edge runs from this edge's end to its start, within tolerance
hasOpposite(edges, i) ==
  \E j \in DOMAIN edges :
     /\ j # i
     /\ DistLt(edges[i].start, edges[j].end, UnionTolerance)
     /\ DistLt(edges[i].end, edges[j].start, UnionTolerance)

pickEdges(edges, keep) == [k \in DOMAIN keep |-> edges[keep[k]]]

findOuterEdges(edges) ==
  pickEdges(edges, SetToSortedSeq({i \in DOMAIN edges : ~hasOpposite(edges, i)}))

\* some endpoint pair of the two walls is closer than 2
\* isConnected without the end-to-end test
isConnectedButEnds(w, other) ==
  \/ DistLt(w.start, other.start, UnionTolerance)
  \/ DistLt(w.start, other.end, UnionTolerance)
  \/ DistLt(w.end, other.start, UnionTolerance)

\* some endpoint pair of the two walls is closer than the tolerance
isConnected(w, other) ==
  \/ DistLt(w.start, other.start, UnionTolerance)
  \/ DistLt(w.start, other.end, UnionTolerance)
  \/ DistLt(w.end, other.start, UnionTolerance)
  \/ DistLt(w.end, other.end, UnionTolerance)

RECURSIVE findConnected(_, _, _)
RECURSIVE scanOthers(_, _, _, _)
\* st = [visited: the indices seen, group: the indices of the group so far]
findConnected(ws, i, st) ==
  IF i \in st.visited THEN st
  ELSE scanOthers(ws, i, 1, [visited |-> st.visited \cup {i},
                             group |-> Append(st.group, i)])

\* for (const other of walls), from index k on
scanOthers(ws, i, k, st) ==
  IF k > Len(ws) THEN st
  ELSE IF k \notin st.visited /\ isConnected(ws[i], ws[k])
       THEN scanOthers(ws, i, k + 1, findConnected(ws, k, st))
       ELSE scanOthers(ws, i, k + 1, st)

RECURSIVE groupsFrom(_, _, _)
groupsWith(ws, i, st) ==
  <<[k \in DOMAIN st.group |-> ws[st.group[k]]]>> \o groupsFrom(ws, i + 1, st.visited)

groupsFrom(ws, i, visited) ==
  IF i > Len(ws) THEN <<>>
  ELSE IF i \in visited THEN groupsFrom(ws, i + 1, visited)
  ELSE groupsWith(ws, i, findConnected(ws, i, [visited |-> visited, group |-> <<>>]))

findConnectedGroups(ws) == groupsFrom(ws, 1, {})

(***************************************************************************)
(* tracePerimeter / traceOuterBoundary: the search of one loop iteration.  *)
(***************************************************************************)
\* the first index of the smallest of the squared distances d2 that is
\* below the tolerance; 0 when there is none
firstNearest(d2) ==
  IF \A i \in DOMAIN d2 : ~QLt(d2[i], Q(UnionTolerance * UnionTolerance)) THEN 0
  ELSE CHOOSE i \in DOMAIN d2 :
         /\ QLt(d2[i], Q(UnionTolerance * UnionTolerance))
         /\ \A j \in DOMAIN d2 : QLt(d2[i], d2[j]) \/ (d2[i] = d2[j] /\ i <= j)

\* the indices the second search reverses: each edge whose end is closer
\* to the current end than the tolerance and than every earlier edge's end
reversedIdx(d2) ==
  {i \in DOMAIN d2 :
     /\ QLt(d2[i], Q(UnionTolerance * UnionTolerance))
     /\ \A j \in 1..(i - 1) : QLt(d2[i], d2[j])}

reverseEdge(e) == [e EXCEPT !.start = e.end, !.end = e.start]

reverseAll(rem, rev) ==
  [i \in DOMAIN rem |-> IF i \in rev THEN reverseEdge(rem[i]) ELSE rem[i]]

searchEnds(rem, d2) == [idx |-> firstNearest(d2), rem |-> reverseAll(rem, reversedIdx(d2))]

\* searchBy without the search for edges to reverse
searchByStartOnly(p, rem, withReverse, byStart) == [idx |-> byStart, rem |-> rem]

searchBy(p, rem, withReverse, byStart) ==
  IF byStart # 0 \/ ~withReverse THEN [idx |-> byStart, rem |-> rem]
  ELSE searchEnds(rem, [i \in DOMAIN rem |-> distanceBetweenPointsSq(p, rem[i].end)])

\* the search of one iteration: [idx, rem], rem with the reversals applied
findNext(p, rem, withReverse) ==
  searchBy(p, rem, withReverse,
           firstNearest([i \in DOMAIN rem |-> distanceBetweenPointsSq(p, rem[i].start)]))

RemoveAt(s, i) == SubSeq(s, 1, i - 1) \o SubSeq(s, i + 1, Len(s))

maxIterations(edges) == Len(edges) * 2

\* the while loop of a tracer as a function of its locals: the polygon returned
RECURSIVE traceLoop(_, _, _, _, _)
traceWith(poly, found, it, limit, withReverse) ==
  IF found.idx = 0 THEN poly
  ELSE IF DistLt(found.rem[found.idx].end, poly[1], UnionTolerance) THEN poly
  ELSE traceLoop(Append(poly, found.rem[found.idx].end), RemoveAt(found.rem, found.idx),
                 it + 1, limit, withReverse)

traceLoop(poly, rem, it, limit, withReverse) ==
  IF ~(Len(rem) > 0 /\ it < limit) THEN poly
  ELSE traceWith(poly, findNext(poly[Len(poly)], rem, withReverse), it, limit, withReverse)

traceEdges(edges, withReverse) ==
  IF edges = <<>> THEN <<>>
  ELSE traceLoop(<<edges[1].start, edges[1].end>>, Tail(edges), 0, maxIterations(edges),
                 withReverse)

\* wallUnion.tracePerimeter: tries reversed edges
tracePerimeter(edges) == traceEdges(edges, TRUE)

\* traceOuterBoundary tracing all edges, the internal ones included
traceAllEdges(bw) == traceEdges(wallEdges(bw), FALSE)

\* useWallMerge.traceOuterBoundary: follows edge starts only
traceOuterBoundary(bw) == traceEdges(findOuterEdges(wallEdges(bw)), FALSE)

calculateUnifiedWallPolygon(ws) ==
  IF Len(ws) = 0 THEN <<>>
  ELSE IF Len(ws) = 1 THEN calculateWallCorners(ws[1])
  ELSE tracePerimeter(findOuterEdges(wallEdges(calculateMiteredWallCorners(ws))))

mergeWallGroup(ws) ==
  IF Len(ws) = 0 THEN <<>>
  ELSE IF Len(ws) = 1 THEN calculateMiteredWallCorners(ws)[1].corners
  ELSE traceOuterBoundary(calculateMiteredWallCorners(ws))

(***************************************************************************)
(* simplifyPolygon.                                                        *)
(***************************************************************************)
\* checkCollinear never reporting a collinear point
checkCollinearNever(p1, p2, p3, tol) == FALSE

checkCollinear(p1, p2, p3, tol) ==
  QLt(QAbs(crossProduct(PSub(p2, p1), PSub(p3, p1))), Q(tol))

\* the interior indices the loop pushes
keptInterior(poly, tol) ==
  {i \in 2..(Len(poly) - 1) : ~checkCollinear(poly[i - 1], poly[i], poly[i + 1], tol)}

simplifyPolygon(poly, tol) ==
  IF Len(poly) < 3 THEN poly
  ELSE <<poly[1]>> \o pickEdges(poly, SetToSortedSeq(keptInterior(poly, tol)))
         \o <<poly[Len(poly)]>>

(***************************************************************************)
(* The wall lists the operations are applied to.  Every wall runs along    *)
(* a direction <<ux, uy, norm>> with ux^2 + uy^2 = norm^2, so that its     *)
(* length is an integer.                                                   *)
(***************************************************************************)
MaxOffset == 2

Thicknesses == {10, 20}

Dirs == { <<1, 0, 1>>, <<-1, 0, 1>>, <<0, 1, 1>>, <<0, -1, 1>>,
          <<3, 4, 5>>, <<-4, 3, 5>>, <<-4, -3, 5>>,
          <<-24, 7, 25>>, <<-24, -7, 25>>, <<24, 7, 25>>, <<7, 24, 25>> }

Segment(id, sx, sy, ex, ey, t, flip) ==
  IF flip THEN Wall(id, IPt(ex, ey), IPt(sx, sy), t)
  ELSE Wall(id, IPt(sx, sy), IPt(ex, ey), t)

\* the wall from (sx, sy) along d with length len, or reversed
Along(id, sx, sy, d, len, t, flip) ==
  Segment(id, sx, sy, sx + (len \div d[3]) * d[1], sy + (len \div d[3]) * d[2], t, flip)

Rotate(s, k) == [i \in DOMAIN s |-> s[((i - 1 + k) % Len(s)) + 1]]

Singles ==
  { <<Along(1, 0, 0, d, 50, t, f)>> : d \in Dirs, t \in Thicknesses, f \in BOOLEAN }
  \cup { <<Along(1, 0, 0, <<1, 0, 1>>, len, 20, f)>> : len \in {1, 2}, f \in BOOLEAN }

\* wall 1 from (0,0) to (40,0); wall 2 leaves (40, off) along d
Pairs ==
  { <<Segment(1, 0, 0, 40, 0, ta, fa), Along(2, 40, off, d, 50, tb, fb)>> :
      d \in Dirs, off \in 0..MaxOffset, ta \in Thicknesses, tb \in Thicknesses,
      fa \in BOOLEAN, fb \in BOOLEAN }

\* the corners of the square of the given side, counter-clockwise
SquareCorner(side, k) ==
  CASE k % 4 = 0 -> <<0, 0>>
    [] k % 4 = 1 -> <<side, 0>>
    [] k % 4 = 2 -> <<side, side>>
    [] k % 4 = 3 -> <<0, side>>

SquareSide(k, a, b, t, flip) == Segment(k, a[1], a[2], b[1], b[2], t, flip)

\* the four walls of a closed square; flips[k] reverses wall k
SquareWalls(side, t, ccw, flips) ==
  [k \in 1..4 |->
     SquareSide(k, SquareCorner(side, IF ccw THEN k - 1 ELSE 5 - k),
                SquareCorner(side, IF ccw THEN k ELSE 4 - k), t, flips[k])]

Squares ==
  { Rotate(SquareWalls(400, 20, ccw, flips), r) :
      ccw \in BOOLEAN, flips \in [1..4 -> BOOLEAN], r \in 0..3 }

\* a 40-30-50 triangle, a T junction, a U shape and a corner with a far wall
Triples ==
  { Rotate(<<Segment(1, 0, 0, 40, 0, 10, f[1]), Segment(2, 40, 0, 40, 30, 10, f[2]),
             Segment(3, 40, 30, 0, 0, 10, f[3])>>, r) :
      f \in [1..3 -> BOOLEAN], r \in 0..2 }
  \cup { <<Segment(1, 0, 0, 40, 0, 20, f[1]), Segment(2, 40, 0, 80, 0, 20, f[2]),
           Segment(3, 40, 0, 40, 50, 20, f[3])>> : f \in [1..3 -> BOOLEAN] }
  \cup { <<Segment(1, 0, 50, 0, 0, 20, f[1]), Segment(2, 0, 0, 40, 0, 20, f[2]),
           Segment(3, 40, 0, 40, 50, 20, f[3])>> : f \in [1..3 -> BOOLEAN] }
  \cup { <<Segment(1, 0, 0, 40, 0, 20, f[1]), Segment(2, 40, 0, 40, 50, 20, f[2]),
           Segment(3, 200, 200, 250, 200, 20, f[3])>> : f \in [1..3 -> BOOLEAN] }

\* collinear and right-angle pairs with the second wall listed first
SwappedPairs ==
  { <<Along(2, 40, 0, d, 50, tb, fb), Segment(1, 0, 0, 40, 0, ta, fa)>> :
      d \in { <<1, 0, 1>>, <<0, 1, 1>>, <<0, -1, 1>> }, ta \in Thicknesses,
      tb \in Thicknesses, fa \in BOOLEAN, fb \in BOOLEAN }

\* a wall no longer than the union tolerance, listed before a wall far from it
Stubs ==
  { <<Along(1, 0, 0, <<1, 0, 1>>, len, 20, fa), Segment(2, 100, 0, 150, 0, 20, fb)>> :
      len \in {1, 2}, fa \in BOOLEAN, fb \in BOOLEAN }

\* three walls whose middle wall is listed last: a U shape, and a corner
\* with a far wall between its two walls
Chains ==
  { <<Segment(1, 0, 50, 0, 0, 20, f[1]), Segment(3, 40, 0, 40, 50, 20, f[3]),
      Segment(2, 0, 0, 40, 0, 20, f[2])>> : f \in [1..3 -> BOOLEAN] }
  \cup { <<Segment(1, 0, 0, 40, 0, 20, f[1]), Segment(3, 200, 200, 250, 200, 20, f[3]),
           Segment(2, 40, 0, 40, 50, 20, f[2])>> : f \in [1..3 -> BOOLEAN] }

\* three walls with an end of each in a row, gap apart, listed from any of them
Staggered ==
  { Rotate(<<Segment(1, 0, 0, 40, 0, 20, f[1]), Segment(2, 40 + gap, 0, 40 + gap, 50, 20, f[2]),
             Segment(3, 40 + 2 * gap, 0, 90, 0, 20, f[3])>>, r) :
      f \in [1..3 -> BOOLEAN], gap \in {1, 2}, r \in 0..2 }

Scenarios ==
  {<<>>} \cup Singles \cup Pairs \cup SwappedPairs \cup Stubs \cup Squares \cup Triples
    \cup Chains \cup Staggered

(***************************************************************************)
(* State: the wall list handed to the core and what each operation         *)
(* returned.                                                               *)
(***************************************************************************)
Init ==
  /\ walls \in Scenarios
  /\ pc = "start"
  /\ op = "none"
  /\ junctions = <<>>
  /\ corners = <<>>
  /\ floor = NullPolygon
  /\ beveled = <<>>
  /\ groups = <<>>
  /\ group = <<>>
  /\ outerEdges = <<>>
  /\ polygon = <<>>
  /\ remainingEdges = <<>>
  /\ iterations = 0
  /\ tolerance = 0
  /\ simplified = <<>>
  /\ lines = <<>>
  /\ result = NoPoint
  /\ request = NoRequest
  /\ outcome = "none"
  /\ initialState

\* const junctions = detectJunctions(walls)
CallDetectJunctions ==
  /\ pc = "start"
  /\ junctions' = detectJunctions(walls, JunctionTolerance)
  /\ pc' = "junctions"
  /\ op' = "adjust"
  /\ UNCHANGED utilVars
  /\ UNCHANGED <<walls, corners, floor, beveled, groups, group, outerEdges, polygon,
                 remainingEdges, iterations>>

\* walls.map(wall => getAdjustedWallCorners(wall, walls, junctions))
CallGetAdjustedWallCorners ==
  /\ pc = "junctions"
  /\ corners' = [i \in DOMAIN walls |-> getAdjustedWallCorners(walls[i], walls, junctions)]
  /\ pc' = "done"
  /\ UNCHANGED utilVars
  /\ UNCHANGED <<walls, op, junctions, floor, beveled, groups, group, outerEdges, polygon,
                 remainingEdges, iterations>>

\* getFloorPolygon(walls), with the default inset
CallGetFloorPolygon ==
  /\ pc = "start"
  /\ floor' = getFloorPolygon(walls, Q(DefaultInset))
  /\ pc' = "done"
  /\ op' = "floor"
  /\ UNCHANGED utilVars
  /\ UNCHANGED <<walls, junctions, corners, beveled, groups, group, outerEdges, polygon,
                 remainingEdges, iterations>>

\* calculateMiteredWallCorners(walls); junctions is its own detectJunctions(walls)
CallCalculateMiteredWallCorners ==
  /\ pc = "start"
  /\ junctions' = detectJunctionsBevel(walls, BevelTolerance)
  /\ beveled' = bevelAll(walls, junctions')
  /\ pc' = "done"
  /\ op' = "bevel"
  /\ UNCHANGED utilVars
  /\ UNCHANGED <<walls, corners, floor, groups, group, outerEdges, polygon,
                 remainingEdges, iterations>>

\* the first lines of a tracer, up to its while loop
BeginTrace(outer) ==
  /\ outerEdges' = outer
  /\ iterations' = 0
  /\ IF outer = <<>>
     THEN /\ polygon' = <<>>
          /\ remainingEdges' = <<>>
          /\ pc' = "done"
     ELSE /\ polygon' = <<outer[1].start, outer[1].end>>
          /\ remainingEdges' = Tail(outer)
          /\ pc' = "trace"

\* the outer edges of the beveled walls bw, then the tracer
StartTrace(bw) ==
  /\ beveled' = bw
  /\ BeginTrace(findOuterEdges(wallEdges(bw)))

\* calculateUnifiedWallPolygon(walls), up to the loop of tracePerimeter
CallCalculateUnifiedWallPolygon ==
  /\ pc = "start"
  /\ op' = "unified"
  /\ group' = walls
  /\ IF Len(walls) = 0
     THEN /\ polygon' = <<>>
          /\ pc' = "done"
          /\ UNCHANGED <<beveled, outerEdges, remainingEdges, iterations>>
     ELSE IF Len(walls) = 1
     THEN /\ polygon' = calculateWallCorners(walls[1])
          /\ pc' = "done"
          /\ UNCHANGED <<beveled, outerEdges, remainingEdges, iterations>>
     ELSE StartTrace(calculateMiteredWallCorners(walls))
  /\ UNCHANGED utilVars
  /\ UNCHANGED <<walls, junctions, corners, floor, groups>>

\* useWallMerge(walls): the connected groups
CallFindConnectedGroups ==
  /\ pc = "start"
  /\ groups' = findConnectedGroups(walls)
  /\ pc' = "groups"
  /\ op' = "merge"
  /\ UNCHANGED utilVars
  /\ UNCHANGED <<walls, junctions, corners, floor, beveled, group, outerEdges, polygon,
                 remainingEdges, iterations>>

\* the single wall of a group: its beveled corners
MergeSingle(bw) ==
  /\ beveled' = bw
  /\ polygon' = bw[1].corners
  /\ pc' = "done"
  /\ UNCHANGED <<outerEdges, remainingEdges, iterations>>

\* mergeWallGroup(group) for one of the groups, up to the loop of
\* traceOuterBoundary
CallMergeWallGroup ==
  /\ pc = "groups"
  /\ \E g \in DOMAIN groups :
       /\ group' = groups[g]
       /\ IF Len(groups[g]) = 1
          THEN MergeSingle(calculateMiteredWallCorners(groups[g]))
          ELSE StartTrace(calculateMiteredWallCorners(groups[g]))
  /\ UNCHANGED utilVars
  /\ UNCHANGED <<walls, op, junctions, corners, floor, groups>>

\* the loop condition of both tracers
TraceRunning == Len(remainingEdges) > 0 /\ iterations < maxIterations(outerEdges)

\* TraceAdvance that neither closes the loop nor consumes the edge
TraceAdvanceKeeping(found) ==
  IF found.idx = 0
  THEN /\ pc' = "done"
       /\ remainingEdges' = found.rem
       /\ UNCHANGED polygon
  ELSE /\ polygon' = Append(polygon, found.rem[found.idx].end)
       /\ remainingEdges' = found.rem
       /\ UNCHANGED pc

\* the rest of an iteration, once the search returned found
TraceAdvance(found) ==
  IF found.idx = 0
  THEN /\ pc' = "done"
       /\ remainingEdges' = found.rem
       /\ UNCHANGED polygon
  ELSE IF DistLt(found.rem[found.idx].end, polygon[1], UnionTolerance)
  THEN /\ pc' = "done"
       /\ remainingEdges' = found.rem
       /\ UNCHANGED polygon
  ELSE /\ polygon' = Append(polygon, found.rem[found.idx].end)
       /\ remainingEdges' = RemoveAt(found.rem, found.idx)
       /\ UNCHANGED pc

\* one evaluation of the while loop: an iteration while the condition holds
\* (only tracePerimeter tries reversed edges), else return polygon
TraceStep ==
  /\ pc = "trace"
  /\ IF TraceRunning
     THEN /\ iterations' = iterations + 1
          /\ TraceAdvance(findNext(polygon[Len(polygon)], remainingEdges, op = "unified"))
     ELSE /\ pc' = "done"
          /\ UNCHANGED <<polygon, remainingEdges, iterations>>
  /\ UNCHANGED utilVars
  /\ UNCHANGED <<walls, op, junctions, corners, floor, beveled, groups, group, outerEdges>>

Next ==
  \/ CallDetectJunctions
  \/ CallGetAdjustedWallCorners
  \/ CallGetFloorPolygon
  \/ CallCalculateMiteredWallCorners
  \/ CallCalculateUnifiedWallPolygon
  \/ CallFindConnectedGroups
  \/ CallMergeWallGroup
  \/ TraceStep

Spec == Init /\ [][Next]_vars

(***************************************************************************)
(* simplifyPolygon applied to point sequences, then to its own result.     *)
(***************************************************************************)
MaxPoints == 4

Tolerances == {1, 2}

GridPoints == { IPt(x, y) : x \in {0, 1, 3}, y \in {0, 1} }

\* every point sequence of at most MaxPoints grid points
PointSeqs == UNION { [1..n -> GridPoints] : n \in 0..MaxPoints }

\* v with the midpoint of v[k] and its successor (cyclically) put after v[k]
InsertMidpoint(v, k) ==
  SubSeq(v, 1, k) \o <<midpoint(v[k], v[(k % Len(v)) + 1])>> \o SubSeq(v, k + 1, Len(v))

\* triangles and quadrilaterals with one midpoint inserted on one side
WithMidpoint ==
  UNION { { InsertMidpoint(v, k) : k \in 1..Len(v) } :
            v \in [1..3 -> GridPoints] \cup [1..4 -> GridPoints] }

\* no wall operation is running
NoWalls ==
  /\ walls = <<>>
  /\ junctions = <<>>
  /\ corners = <<>>
  /\ floor = NullPolygon
  /\ beveled = <<>>
  /\ groups = <<>>
  /\ group = <<>>
  /\ outerEdges = <<>>
  /\ remainingEdges = <<>>
  /\ iterations = 0

SimplifyInit ==
  /\ NoWalls
  /\ pc = "start"
  /\ op = "simplify"
  /\ polygon \in PointSeqs \cup WithMidpoint
  /\ tolerance \in Tolerances
  /\ simplified = <<>>
  /\ lines = <<>>
  /\ result = NoPoint
  /\ request = NoRequest
  /\ outcome = "none"
  /\ initialState

\* simplified = simplifyPolygon(polygon, tolerance); the second call takes
\* the result of the first as its polygon
CallSimplifyPolygon ==
  /\ op = "simplify"
  /\ pc \in {"start", "once"}
  /\ polygon' = IF pc = "start" THEN polygon ELSE simplified
  /\ simplified' = simplifyPolygon(polygon', tolerance)
  /\ pc' = IF pc = "start" THEN "once" ELSE "twice"
  /\ UNCHANGED <<walls, op, junctions, corners, floor, beveled, groups, group, outerEdges,
                 remainingEdges, iterations, tolerance, lines, result, request, outcome,
                 storeVars>>

SimplifyNext == CallSimplifyPolygon

SimplifySpec == SimplifyInit /\ [][SimplifyNext]_vars

(***************************************************************************)
(* lineIntersection and calculateMiterPoint applied to two segments.       *)
(***************************************************************************)
\* the point (xn/xd, yn/yd)
QPt(xn, xd, yn, yd) == Pt(Norm(xn, xd), Norm(yn, yd))

\* segments <<start, end>>: crossing, parallel, coinciding, degenerate, nearly
\* parallel (slopes 1/10000 and 1/20000) and very short perpendicular ones
Segments ==
  { <<IPt(-1, 0), IPt(1, 0)>>, <<IPt(0, -1), IPt(0, 1)>>,
    <<IPt(0, 0), IPt(1, 0)>>, <<IPt(0, 1), IPt(1, 1)>>, <<IPt(0, 0), IPt(2, 0)>>,
    <<IPt(0, 0), IPt(1, 1)>>, <<IPt(1, 0), IPt(0, 1)>>, <<IPt(0, 0), IPt(0, 0)>>,
    <<IPt(0, 1), QPt(1, 1, 10001, 10000)>>, <<IPt(0, 1), QPt(1, 1, 20001, 20000)>>,
    <<QPt(-1, 400, 0, 1), QPt(1, 400, 0, 1)>>, <<QPt(0, 1, -1, 400), QPt(0, 1, 1, 400)>> }

IntersectInit ==
  /\ NoWalls
  /\ pc = "start"
  /\ op \in {"lineIntersection", "calculateMiterPoint"}
  /\ polygon = <<>>
  /\ tolerance = 0
  /\ simplified = <<>>
  /\ lines \in Segments \X Segments
  /\ result = NoPoint
  /\ request = NoRequest
  /\ outcome = "none"
  /\ initialState

CallLineIntersection ==
  /\ op = "lineIntersection"
  /\ pc = "start"
  /\ result' = lineIntersection(lines[1][1], lines[1][2], lines[2][1], lines[2][2])
  /\ pc' = "done"
  /\ UNCHANGED <<walls, op, junctions, corners, floor, beveled, groups, group, outerEdges,
                 polygon, remainingEdges, iterations, tolerance, simplified, lines, request, outcome,
                 storeVars>>

CallCalculateMiterPoint ==
  /\ op = "calculateMiterPoint"
  /\ pc = "start"
  /\ result' = calculateMiterPoint(lines[1][1], lines[1][2], lines[2][1], lines[2][2])
  /\ pc' = "done"
  /\ UNCHANGED <<walls, op, junctions, corners, floor, beveled, groups, group, outerEdges,
                 polygon, remainingEdges, iterations, tolerance, simplified, lines, request, outcome,
                 storeVars>>

IntersectNext == CallLineIntersection \/ CallCalculateMiterPoint

IntersectSpec == IntersectInit /\ [][IntersectNext]_vars

(***************************************************************************)
(* The lookups of a wall by id in floorPlanTo3D.ts.                        *)
(***************************************************************************)
WallIds == {"w1", "w2", "w3"}

Lookups == {"convertDoorTo3D", "convertWindowTo3D", "createWallGeometry",
            "createFootprintGeometry"}

\* the wall list has a wall with the id looked for
wallFound == request.wallId \in request.wallIds

LookupInit ==
  /\ NoWalls
  /\ pc = "start"
  /\ op \in Lookups
  /\ polygon = <<>>
  /\ tolerance = 0
  /\ simplified = <<>>
  /\ lines = <<>>
  /\ result = NoPoint
  /\ request \in [wallId : WallIds, wallIds : SUBSET WallIds]
  /\ outcome = "none"
  /\ initialState

\* what every lookup leaves alone
LookupDone ==
  /\ pc' = "done"
  /\ UNCHANGED <<walls, op, junctions, corners, floor, beveled, groups, group, outerEdges,
                 polygon, remainingEdges, iterations, tolerance, simplified, lines, result,
                 request, storeVars>>

CallConvertDoorTo3D ==
  /\ op = "convertDoorTo3D"
  /\ pc = "start"
  /\ outcome' = IF ~wallFound THEN "Error" ELSE "Door3D"
  /\ LookupDone

CallConvertWindowTo3D ==
  /\ op = "convertWindowTo3D"
  /\ pc = "start"
  /\ outcome' = IF ~wallFound THEN "Error" ELSE "Window3D"
  /\ LookupDone

CallCreateWallGeometry ==
  /\ op = "createWallGeometry"
  /\ pc = "start"
  /\ outcome' = IF ~wallFound THEN "BoxGeometry" ELSE "ExtrudeGeometry"
  /\ LookupDone

CallCreateFootprintGeometry ==
  /\ op = "createFootprintGeometry"
  /\ pc = "start"
  /\ outcome' = IF ~wallFound THEN "null" ELSE "BufferGeometry"
  /\ LookupDone

LookupNext ==
  \/ CallConvertDoorTo3D
  \/ CallConvertWindowTo3D
  \/ CallCreateWallGeometry
  \/ CallCreateFootprintGeometry

LookupSpec == LookupInit /\ [][LookupNext]_vars

(***************************************************************************)
(* tracePerimeter applied to the edges of one simple closed loop.          *)
(***************************************************************************)
\* the vertices of a triangle, a square and an L-shaped hexagon
LoopVertices ==
  { <<IPt(0, 0), IPt(40, 0), IPt(0, 30)>>,
    <<IPt(0, 0), IPt(40, 0), IPt(40, 40), IPt(0, 40)>>,
    <<IPt(0, 0), IPt(40, 0), IPt(40, 20), IPt(20, 20), IPt(20, 40), IPt(0, 40)>> }

\* every order of up to 4 edges; of more, the rotations in both directions
EdgeOrders(n) ==
  IF n <= 4 THEN Permutations(1..n)
  ELSE { [i \in 1..n |-> ((i - 1 + k) % n) + 1] : k \in 0..(n - 1) }
       \cup { [i \in 1..n |-> ((n - i + k) % n) + 1] : k \in 0..(n - 1) }

\* edge k of the loop v, stored from its second vertex when flipped
LoopEdge(v, k, flip) ==
  IF flip THEN [start |-> v[(k % Len(v)) + 1], end |-> v[k], wallId |-> k]
  ELSE [start |-> v[k], end |-> v[(k % Len(v)) + 1], wallId |-> k]

\* the edges of one loop, in any order, each in either direction
LoopEdges ==
  UNION { { [i \in 1..Len(v) |-> LoopEdge(v, order[i], flips[order[i]])] :
              order \in EdgeOrders(Len(v)), flips \in [1..Len(v) -> BOOLEAN] } :
          v \in LoopVertices }

PerimeterInit ==
  /\ walls = <<>>
  /\ pc = "edges"
  /\ op = "unified"
  /\ junctions = <<>>
  /\ corners = <<>>
  /\ floor = NullPolygon
  /\ beveled = <<>>
  /\ groups = <<>>
  /\ group = <<>>
  /\ outerEdges \in LoopEdges
  /\ polygon = <<>>
  /\ remainingEdges = <<>>
  /\ iterations = 0
  /\ tolerance = 0
  /\ simplified = <<>>
  /\ lines = <<>>
  /\ result = NoPoint
  /\ request = NoRequest
  /\ outcome = "none"
  /\ initialState

\* tracePerimeter(outerEdges), up to its while loop
CallTracePerimeter ==
  /\ pc = "edges"
  /\ BeginTrace(outerEdges)
  /\ UNCHANGED utilVars
  /\ UNCHANGED <<walls, op, junctions, corners, floor, beveled, groups, group>>

PerimeterNext == CallTracePerimeter \/ TraceStep

PerimeterSpec == PerimeterInit /\ [][PerimeterNext]_vars

(***************************************************************************)
(* Properties.                                                             *)
(***************************************************************************)
Adjusted == op = "adjust" /\ pc = "done"

Traced == op \in {"unified", "merge"} /\ pc = "done"

endPoint(w, isStart) == IF isStart THEN w.start ELSE w.end

\* <<left corner, right corner>> of one end of a corner list
endCorners(cs, isStart) == IF isStart THEN <<cs[1], cs[2]>> ELSE <<cs[4], cs[3]>>

wallById(id) == walls[CHOOSE i \in DOMAIN walls : walls[i].id = id]

\* every wall of the square ends where another wall starts
ChainedSquare ==
  /\ walls \in Squares
  /\ \A i \in DOMAIN walls : \E j \in DOMAIN walls : j # i /\ walls[i].end = walls[j].start

CornersMeet(i, j) == corners[i][4] = corners[j][1] /\ corners[i][3] = corners[j][2]

\* C1: around a chained 400x400 square of thickness 20, corner4 and corner3
\* of the wall ending at a junction are corner1 and corner2 of the wall
\* starting there.
C1_CornersMeetAtJunctions ==
  (Adjusted /\ ChainedSquare) =>
    \A i, j \in DOMAIN walls :
      (i # j /\ walls[i].end = walls[j].start) => CornersMeet(i, j)

\* C1 witness: a chained square whose first wall was mitered at its end onto
\* the start corners of the next wall.
C1_Witness ==
  /\ Adjusted
  /\ ChainedSquare
  /\ walls[1].end = walls[2].start
  /\ CornersMeet(1, 2)
  /\ corners[1][4] # calculateWallCorners(walls[1])[4]

\* the junctions the lookup accepts for a point, and the one it returns
junctionsNear(p) == {k \in DOMAIN junctions : DistLt(junctions[k].point, p, LookupTolerance)}

foundJunction(p) == junctions[CHOOSE k \in junctionsNear(p) : \A m \in junctionsNear(p) : k <= m]

otherIds(w, j) == SelectSeq(j.wallIds, LAMBDA id : id # w.id)

vectorOf(w) == PSub(w.end, w.start)

\* the junction of the end names no other wall, or its first other wall is parallel
NothingToMiter(w, j) ==
  \/ otherIds(w, j) = <<>>
  \/ /\ otherIds(w, j) # <<>>
     /\ crossProduct(vectorOf(w), vectorOf(wallById(otherIds(w, j)[1]))).n = 0

Unmitered(i, isStart) ==
  endCorners(corners[i], isStart) = endCorners(calculateWallCorners(walls[i]), isStart)

StaysUnmitered(i, isStart) ==
  \/ junctionsNear(endPoint(walls[i], isStart)) = {}
  \/ /\ junctionsNear(endPoint(walls[i], isStart)) # {}
     /\ NothingToMiter(walls[i], foundJunction(endPoint(walls[i], isStart)))

\* C2: an end with no junction, with a junction of no other wall, or whose
\* other wall is parallel keeps its two base corners; a single wall keeps its
\* base rectangle.
C2_UnmiteredEnds ==
  Adjusted =>
    /\ \A i \in DOMAIN walls : \A isStart \in BOOLEAN :
         StaysUnmitered(i, isStart) => Unmitered(i, isStart)
    /\ Len(walls) = 1 => corners[1] = calculateWallCorners(walls[1])

\* C2 witness: two walls whose junction joins parallel walls, the end of the
\* first wall left at its base corners.
C2_Witness ==
  /\ Adjusted
  /\ Len(walls) = 2
  /\ junctionsNear(walls[1].end) # {}
  /\ otherIds(walls[1], foundJunction(walls[1].end)) # <<>>
  /\ NothingToMiter(walls[1], foundJunction(walls[1].end))
  /\ Unmitered(1, FALSE)

moveSq(i, k) == distanceBetweenPointsSq(corners[i][k], calculateWallCorners(walls[i])[k])

limitSq(i) == QSq(QMul(Q(3), walls[i].thickness))

\* C3: every adjusted corner is within 3 x thickness of its base corner.
C3_WithinThreeThicknesses ==
  Adjusted => \A i \in DOMAIN walls : \A k \in 1..4 : QLe(moveSq(i, k), limitSq(i))

\* C3 witness: a corner of a two-wall junction that was moved to exactly
\* 3 x thickness from its base corner.
C3_Witness ==
  /\ Adjusted
  /\ Len(walls) = 2
  /\ \E i \in DOMAIN walls : \E k \in 1..4 : moveSq(i, k) = limitSq(i)

\* the tolerance and the member ids of the junctions of the detector that ran
detectorTolerance == IF op = "bevel" THEN BevelTolerance ELSE JunctionTolerance

memberIds(j) ==
  IF op = "bevel" THEN {j.walls[m].wall.id : m \in DOMAIN j.walls}
  ELSE {j.wallIds[m] : m \in DOMAIN j.wallIds}

Detected == (op = "adjust" /\ pc # "start") \/ (op = "bevel" /\ pc = "done")

near(a, b) == DistLe(endpoints(walls)[a].point, endpoints(walls)[b].point, detectorTolerance)

\* endpoints fall into groups: within tolerance inside, farther apart across
WellSeparated ==
  \A a, b, c \in DOMAIN endpoints(walls) : (near(a, b) /\ near(b, c)) => near(a, c)

endpointGroups ==
  { g \in { {b \in DOMAIN endpoints(walls) : near(a, b)} : a \in DOMAIN endpoints(walls) } :
      Cardinality(g) >= 2 }

\* junction k stands for the group g: it lists its walls and lies within it
standsFor(k, g) ==
  /\ memberIds(junctions[k]) = {endpoints(walls)[a].wallId : a \in g}
  /\ \A a \in g : DistLe(junctions[k].point, endpoints(walls)[a].point, detectorTolerance)

\* C4: with well-separated endpoint groups, either detectJunctions returns
\* one junction per group of two or more endpoints, listing the walls of
\* the group; the closed square gives 4 junctions of 2 walls each.
C4_OneJunctionPerGroup ==
  (Detected /\ WellSeparated) =>
    /\ Len(junctions) = Cardinality(endpointGroups)
    /\ \A g \in endpointGroups : Cardinality({k \in DOMAIN junctions : standsFor(k, g)}) = 1
    /\ \A k \in DOMAIN junctions : \E g \in endpointGroups : standsFor(k, g)
    /\ walls \in Squares =>
         (Len(junctions) = 4 /\ \A k \in 1..4 : Cardinality(memberIds(junctions[k])) = 2)

\* C4 witness: the bevel resolver's detector on two walls whose endpoints are
\* exactly its tolerance apart: one junction with both walls.
C4_Witness ==
  /\ op = "bevel" /\ pc = "done"
  /\ WellSeparated
  /\ Len(walls) = 2
  /\ Len(junctions) = 1
  /\ memberIds(junctions[1]) = {1, 2}
  /\ \E a, b \in DOMAIN endpoints(walls) :
       distanceBetweenPointsSq(endpoints(walls)[a].point, endpoints(walls)[b].point)
         = Q(BevelTolerance * BevelTolerance)

QFloor(a) == a.n \div a.d

QCeil(a) == -((-a.n) \div a.d)

MaxOf(S) == CHOOSE m \in S : \A x \in S : x <= m

MinOf(S) == CHOOSE m \in S : \A x \in S : m <= x

\* an upper bound of the perimeter: the sum of |dx| + |dy| over the sides
perimeterBound(pts) ==
  SumSeq([i \in DOMAIN pts |->
            QAdd(QAbs(QSub(pts[(i % Len(pts)) + 1].x, pts[i].x)),
                 QAbs(QSub(pts[(i % Len(pts)) + 1].y, pts[i].y)))])

\* an upper bound of the area: the area of an integer box around the points
areaBound(pts) ==
  (MaxOf({QCeil(pts[i].x) : i \in DOMAIN pts}) - MinOf({QFloor(pts[i].x) : i \in DOMAIN pts}))
  * (MaxOf({QCeil(pts[i].y) : i \in DOMAIN pts}) - MinOf({QFloor(pts[i].y) : i \in DOMAIN pts}))

strictlyInside(p, side) ==
  QLt(Q(0), p.x) /\ QLt(p.x, Q(side)) /\ QLt(Q(0), p.y) /\ QLt(p.y, Q(side))

\* the corners of the room inside a square of walls of thickness t
innerCorners(side, t) ==
  { IPt(x, y) : x \in {t \div 2, side - t \div 2}, y \in {t \div 2, side - t \div 2} }

\* p is less than the inset plus one from c along either axis
byCorner(p, c) ==
  /\ QLt(QAbs(QSub(p.x, c.x)), Q(DefaultInset + 1))
  /\ QLt(QAbs(QSub(p.y, c.y)), Q(DefaultInset + 1))

\* C5: the floor of the closed 400x400 square of thickness 20 has 4 points,
\* one by each inner corner of the room, strictly inside the square, with
\* perimeter below 1600 and area below the footprint's.
C5_SquareFloor ==
  (op = "floor" /\ walls \in Squares) =>
    /\ ~floor.isNull
    /\ Len(floor.pts) = 4
    /\ \A c \in innerCorners(400, 20) :
         Cardinality({i \in 1..4 : byCorner(floor.pts[i], c)}) = 1
    /\ \A i \in 1..4 : strictlyInside(floor.pts[i], 400)
    /\ QLt(perimeterBound(floor.pts), Q(4 * 400))
    /\ areaBound(floor.pts) < 400 * 400

\* C5 witness: a floor of 4 points was returned for a square.
C5_Witness ==
  /\ op = "floor" /\ walls \in Squares
  /\ ~floor.isNull
  /\ Len(floor.pts) = 4
  /\ \A i \in 1..4 : strictlyInside(floor.pts[i], 400)

\* C6: getFloorPolygon returns null for fewer than 3 walls and a polygon
\* with one vertex per wall for 3 walls or more.
C6_FloorNeedsThreeWalls ==
  op = "floor" =>
    /\ Len(walls) < 3 => floor.isNull
    /\ Len(walls) >= 3 => (~floor.isNull /\ Len(floor.pts) = Len(walls))

\* C6 witness: null was returned for exactly two walls.
C6_Witness == op = "floor" /\ Len(walls) = 2 /\ floor.isNull

\* the two walls meet at a right angle at a shared endpoint
RightAnglePair(g) ==
  /\ Len(g) = 2
  /\ \E a, b \in BOOLEAN : endPoint(g[1], a) = endPoint(g[2], b)
  /\ dot(vectorOf(g[1]), vectorOf(g[2])).n = 0

ownVertices(w) ==
  {p \in Range(polygon) : p \in Range(beveled[w].corners) /\ p \notin Range(beveled[3 - w].corners)}

\* C7: the union polygon of two walls meeting at a right angle holds, for
\* each of the two walls, vertices of that wall's own boundary.
C7_UnionCoversBothWalls ==
  (Traced /\ RightAnglePair(group)) => \A w \in 1..2 : ownVertices(w) # {}

\* the two walls are collinear, of equal thickness, and share one endpoint
CollinearPair(g) ==
  /\ Len(g) = 2
  /\ g[1].thickness = g[2].thickness
  /\ Cardinality({g[1].start, g[1].end, g[2].start, g[2].end}) = 3
  /\ \A p \in {g[1].start, g[1].end, g[2].start, g[2].end} : p.y = Q(0)
  /\ MinOf({g[1].start.x.n, g[1].end.x.n}) = 0
  /\ MaxOf({g[2].start.x.n, g[2].end.x.n}) = 90

onSeam(p) == p.x = Q(40)

isSeam(e) == onSeam(e.start) /\ onSeam(e.end)

\* the 6 outer vertices of the merged rectangle of half thickness h
mergedVertices(h) ==
  { Pt(Q(x), y) : x \in {0, 40, 90}, y \in {h, QNeg(h)} }

C9_SingleWallUnchanged ==
  (Traced /\ Len(group) = 1) => polygon = calculateWallCorners(group[1])

\* C9 witness: mergeWallGroup returned the 4 corners of a group of one wall.
C9_Witness ==
  /\ op = "merge" /\ pc = "done"
  /\ Len(group) = 1
  /\ Len(polygon) = 4

Tracing == pc = "trace" \/ (Traced /\ Len(group) >= 2)

TraceBounds ==
  Tracing =>
    /\ iterations <= 2 * Len(outerEdges)
    /\ Len(polygon) <= Len(outerEdges) + 1

\* an iteration either leaves the loop or counts itself, consumes one of the
\* remaining edges and adds one point
TraceProgress ==
  pc = "trace" =>
    \/ pc' = "done"
    \/ /\ pc' = "trace"
       /\ iterations' = iterations + 1
       /\ Len(remainingEdges') = Len(remainingEdges) - 1
       /\ Len(polygon') = Len(polygon) + 1

\* C10: both tracing loops end: every iteration leaves the loop or consumes
\* an edge, there are never more than 2 x (outer edges) iterations, and the
\* polygon never has more than (outer edges + 1) points.
C10_TraceTerminates == []TraceBounds /\ [][TraceProgress]_vars

\* C10 witness: a trace over edges that never close ended with an open
\* polygon and edges left over.
C10_Witness ==
  /\ Traced
  /\ Len(group) >= 2
  /\ iterations >= 1
  /\ remainingEdges # <<>>
  /\ \A k \in DOMAIN remainingEdges :
       /\ ~DistLt(polygon[Len(polygon)], remainingEdges[k].start, UnionTolerance)
       /\ ~DistLt(polygon[Len(polygon)], remainingEdges[k].end, UnionTolerance)

\* some endpoint of a is closer than 2 to some endpoint of b
linkedDirectly(a, b) ==
  \E p \in {a.start, a.end} : \E q \in {b.start, b.end} : DistLt(p, q, 2)

\* S with every wall index directly linked to a member of S
linkedOnce(S) ==
  S \cup {j \in DOMAIN walls : \E i \in S : linkedDirectly(walls[i], walls[j])}

\* the wall indices linked to S by a chain of walls
RECURSIVE linkedTo(_)
linkedTo(S) == IF linkedOnce(S) = S THEN S ELSE linkedTo(linkedOnce(S))

\* the positions <<g, k>> at which wall w sits in groups
placesOf(w) ==
  {gk \in (DOMAIN groups) \X (1..Len(walls)) :
     gk[2] <= Len(groups[gk[1]]) /\ groups[gk[1]][gk[2]] = w}

sameGroup(a, b) == \E g \in DOMAIN groups : {a, b} \subseteq Range(groups[g])

Grouped == op = "merge" /\ pc # "start"

\* C11: findConnectedGroups returns a partition of the walls: each wall sits
\* in exactly one group, no group is empty or holds anything else, and two
\* walls share a group exactly when a chain of walls with endpoints closer
\* than 2 links them.
C11_GroupsPartitionWalls ==
  Grouped =>
    /\ \A i \in DOMAIN walls : Cardinality(placesOf(walls[i])) = 1
    /\ \A g \in DOMAIN groups : groups[g] # <<>> /\ Range(groups[g]) \subseteq Range(walls)
    /\ \A i, j \in DOMAIN walls : sameGroup(walls[i], walls[j]) <=> j \in linkedTo({i})

\* C11 witness: three walls in one group, the first two listed linked only
\* through the third.
C11_Witness ==
  /\ Grouped
  /\ Len(walls) = 3
  /\ Len(groups) = 1
  /\ ~linkedDirectly(walls[1], walls[2])
  /\ sameGroup(walls[1], walls[2])

\* the cross product the claim names for interior point i of the polygon
neighbourCross(i) ==
  crossProduct(PSub(polygon[i], polygon[i - 1]), PSub(polygon[i + 1], polygon[i - 1]))

\* the interior points of the polygon whose cross product is not below the tolerance
keptPoints ==
  SelectSeq([i \in 1..(Len(polygon) - 2) |->
               [p |-> polygon[i + 1], keep |-> ~QLt(QAbs(neighbourCross(i + 1)), Q(tolerance))]],
            LAMBDA e : e.keep)

SimplifiedOnce == op = "simplify" /\ pc = "once"

\* C12: simplifyPolygon returns sequences of fewer than 3 points unchanged
\* and otherwise the first point, the interior points whose cross product
\* with their input neighbours is not below the tolerance, and the last point.
C12_SimplifyKeepsNonCollinear ==
  SimplifiedOnce =>
    /\ Len(polygon) < 3 => simplified = polygon
    /\ Len(polygon) >= 3 =>
         simplified = <<polygon[1]>> \o [k \in DOMAIN keptPoints |-> keptPoints[k].p]
                        \o <<polygon[Len(polygon)]>>

\* C12 witness: of two interior points one was dropped and one kept.
C12_Witness ==
  /\ SimplifiedOnce
  /\ Len(polygon) = 4
  /\ Len(simplified) = 3

SimplifiedTwice == op = "simplify" /\ pc = "twice"

\* C13: simplifyPolygon is idempotent: simplifying the result of
\* simplifyPolygon again, with the same tolerance, returns it unchanged.
C13_SimplifyIdempotent == SimplifiedTwice => simplified = polygon

\* vertex i of v with its neighbours on the implicitly closed polygon
cyclicCross(v, i) ==
  crossProduct(PSub(v[i], v[((i + Len(v) - 2) % Len(v)) + 1]),
               PSub(v[(i % Len(v)) + 1], v[((i + Len(v) - 2) % Len(v)) + 1]))

\* no vertex of the closed polygon v is collinear with its neighbours
noCollinearVertex(v, tol) == \A i \in DOMAIN v : ~QLt(QAbs(cyclicCross(v, i)), Q(tol))

\* polygon[j] is the midpoint of its predecessor and its cyclic successor
midpointAt(j) == polygon[j] = midpoint(polygon[j - 1], polygon[(j % Len(polygon)) + 1])

\* C14: a polygon without collinear vertices into which one midpoint was
\* inserted between two consecutive vertices, the closing edge included,
\* is simplified back to the original vertex sequence.
C14_MidpointRemoved ==
  SimplifiedOnce =>
    \A j \in 2..Len(polygon) :
      (Len(polygon) >= 4 /\ midpointAt(j) /\ noCollinearVertex(RemoveAt(polygon, j), tolerance))
        => simplified = RemoveAt(polygon, j)

Intersected == op \in {"lineIntersection", "calculateMiterPoint"} /\ pc = "done"

\* the direction of segment l
directionOf(l) == PSub(l[2], l[1])

\* dx1*dy2 - dy1*dx2 of the two segments
determinant == crossProduct(directionOf(lines[1]), directionOf(lines[2]))

\* p lies on the infinite line through segment l
onLine(p, l) == crossProduct(PSub(p, l[1]), directionOf(l)).n = 0

\* the segments are perpendicular and share their midpoint
CrossAtMidpoints ==
  /\ dot(directionOf(lines[1]), directionOf(lines[2])).n = 0
  /\ directionOf(lines[1]) # IPt(0, 0)
  /\ directionOf(lines[2]) # IPt(0, 0)
  /\ midpoint(lines[1][1], lines[1][2]) = midpoint(lines[2][1], lines[2][2])

Parallel == determinant.n = 0

BelowThreshold == QLt(QAbs(determinant), Norm(1, 10000))

\* C15: lineIntersection and calculateMiterPoint return null exactly when
\* the magnitude of the determinant is below 1e-4 and otherwise a point on
\* both infinite lines; parallel segments give null, and perpendicular
\* segments crossing at their midpoints give the crossing point whenever
\* their determinant is not below 1e-4.
C15_IntersectionOfLines ==
  Intersected =>
    /\ result.isNull <=> BelowThreshold
    /\ ~result.isNull => onLine(result.p, lines[1]) /\ onLine(result.p, lines[2])
    /\ Parallel => result.isNull
    /\ (CrossAtMidpoints /\ ~BelowThreshold) =>
         (~result.isNull /\ result.p = midpoint(lines[1][1], lines[1][2]))

\* C15 witness: two nearly parallel lines whose determinant is exactly 1e-4
\* were intersected far outside both segments.
C15_Witness ==
  /\ Intersected
  /\ determinant = Norm(1, 10000)
  /\ ~result.isNull
  /\ QLt(Q(1), QAbs(result.p.x))

\* C15 as stated: every two perpendicular segments crossing at their
\* midpoints give their crossing point.
C15_PerpendicularCrossing ==
  (Intersected /\ CrossAtMidpoints) =>
    (~result.isNull /\ result.p = midpoint(lines[1][1], lines[1][2]))

LookedUp == op \in Lookups /\ pc = "done"

Geometries == {"BoxGeometry", "ExtrudeGeometry", "BufferGeometry"}

\* C16: a lookup of a wall id that no wall of the list has fails: converting
\* a door or a window throws, and createWallGeometry and
\* createFootprintGeometry return no geometry.
C16_AbsentWallFails ==
  (LookedUp /\ ~wallFound) =>
    /\ op \in {"convertDoorTo3D", "convertWindowTo3D"} => outcome = "Error"
    /\ op \in {"createWallGeometry", "createFootprintGeometry"} => outcome \notin Geometries

\* the unit vector of an axis-aligned vector v
unitOfAxisAligned(v) ==
  Pt(QDiv(v.x, QAdd(QAbs(v.x), QAbs(v.y))), QDiv(v.y, QAdd(QAbs(v.x), QAbs(v.y))))

\* the unit direction of w pointing away from its end at the junction
awayFrom(w, isStart) ==
  unitOfAxisAligned(PSub(endPoint(w, ~isStart), endPoint(w, isStart)))

\* walls i and j, of equal thickness and axis-aligned, meet at a right angle
\* with the given ends on one point, at a junction of these two walls
RightAngleJunction(i, a, j, b) ==
  /\ i # j
  /\ endPoint(walls[i], a) = endPoint(walls[j], b)
  /\ walls[i].thickness = walls[j].thickness
  /\ vectorOf(walls[i]).x.n = 0 \/ vectorOf(walls[i]).y.n = 0
  /\ dot(vectorOf(walls[i]), vectorOf(walls[j])).n = 0
  /\ crossProduct(vectorOf(walls[i]), vectorOf(walls[j])).n # 0
  /\ junctionsNear(endPoint(walls[i], a)) # {}
  /\ Len(foundJunction(endPoint(walls[i], a)).wallIds) = 2
  /\ memberIds(foundJunction(endPoint(walls[i], a))) = {walls[i].id, walls[j].id}

\* J + h*(a+b) and J - h*(a+b)
trueMiterCorners(J, h, ab) == {PAdd(J, PScale(ab, h)), PSub(J, PScale(ab, h))}

\* C17: at a right-angle junction of two equal-thickness walls the two
\* adjusted corners of each wall are J + h*(a+b) and J - h*(a+b), whichever
\* end of each wall lies at J.
C17_TrueMiterAtRightAngle ==
  Adjusted =>
    \A i, j \in DOMAIN walls : \A a, b \in BOOLEAN :
      RightAngleJunction(i, a, j, b) =>
        Range(endCorners(corners[i], a)) =
          trueMiterCorners(endPoint(walls[i], a), QHalf(walls[i].thickness),
                           PAdd(awayFrom(walls[i], a), awayFrom(walls[j], b)))

\* the number of member entries of junction j
memberCount(j) == IF op = "bevel" THEN Len(j.walls) ELSE Len(j.wallIds)

\* C18: every junction detectJunctions returns has at least 2 members, also
\* when a wall's own start and end lie within tolerance of each other.
C18_JunctionsHaveTwoMembers ==
  Detected => \A k \in DOMAIN junctions : memberCount(junctions[k]) >= 2

\* endpoint e is reached unclustered: no earlier seed is within tolerance
RECURSIVE isSeed(_)
isSeed(e) == \A s \in 1..(e - 1) : ~(isSeed(s) /\ near(s, e))

\* the earliest seed within tolerance of e, e itself when it is a seed
seedOf(e) == CHOOSE s \in 1..e : isSeed(s) /\ (s = e \/ near(s, e))
                /\ \A r \in 1..(s - 1) : ~(isSeed(r) /\ near(r, e))

clusterOfSeed(s) == {e \in DOMAIN endpoints(walls) : seedOf(e) = s}

\* the seeds whose cluster has two or more endpoints, in the enumeration order
junctionSeeds ==
  SetToSortedSeq({s \in DOMAIN endpoints(walls) : isSeed(s) /\ Cardinality(clusterOfSeed(s)) >= 2})

\* the entry of endpoint e in a junction of wallMiter
memberEntry(e) == [wall |-> walls[endpoints(walls)[e].widx], isStart |-> endpoints(walls)[e].isStart]

\* C19: the junctions are the clusters of single seeds: the seed of a
\* cluster is the earliest endpoint not yet clustered, and an endpoint joins
\* the cluster of the earliest seed within tolerance before it and of no
\* other, whatever absorbed endpoints it is near to.
C19_SingleSeedClusters ==
  Detected =>
    /\ Len(junctions) = Len(junctionSeeds)
    /\ \A k \in DOMAIN junctions :
         /\ memberIds(junctions[k]) = {endpoints(walls)[e].wallId : e \in clusterOfSeed(junctionSeeds[k])}
         /\ op = "bevel" =>
              junctions[k].walls =
                [m \in 1..Cardinality(clusterOfSeed(junctionSeeds[k])) |->
                   memberEntry(SetToSortedSeq(clusterOfSeed(junctionSeeds[k]))[m])]

\* C19 witness: an endpoint within tolerance of an absorbed endpoint, but
\* not of its seed, was left out of the junction of that seed.
C19_Witness ==
  /\ op = "bevel" /\ pc = "done"
  /\ Len(junctions) = 1
  /\ Len(junctions[1].walls) = 2
  /\ \E b \in clusterOfSeed(junctionSeeds[1]) : \E c \in DOMAIN endpoints(walls) :
       /\ near(b, c)
       /\ ~near(junctionSeeds[1], c)
       /\ c > junctionSeeds[1]
       /\ memberEntry(c) \notin Range(junctions[1].walls)

Beveled == op = "bevel" /\ pc = "done"

\* the vector of wall w pointing away from its given end
awayVector(w, isStart) == PSub(endPoint(w, ~isStart), endPoint(w, isStart))

\* the entries of other walls in the junction found at the given end of w
otherEntries(w, isStart) ==
  IF junctionsNear(endPoint(w, isStart)) = {} THEN <<>>
  ELSE SelectSeq(foundJunction(endPoint(w, isStart)).walls, LAMBDA e : e.wall.id # w.id)

\* |u.v| < 0.3 for the unit vectors of U and V: (U.V / |U|^2) (U.V / |V|^2) < 0.09
NearlyPerpendicular(U, V) ==
  QLt(QMul(QDiv(dot(U, V), dot(U, U)), QDiv(dot(U, V), dot(V, V))), Norm(9, 100))

\* the point at half-thickness from the junction point along w's own direction
bevelPointOf(w, isStart) ==
  PAdd(foundJunction(endPoint(w, isStart)).point,
       PScale(getWallDirection(w, isStart), QHalf(w.thickness)))

\* <<left, right>> of one end as the claim gives them: the left corner is
\* corner1 (start) or corner4 (end), the right one corner2 or corner3
expectedEnd(w, isStart, other, base) ==
  IF other = <<>> THEN base
  ELSE IF ~NearlyPerpendicular(awayVector(w, isStart),
                               awayVector(other[1].wall, other[1].isStart)) THEN base
  ELSE IF crossProduct(awayVector(w, isStart), awayVector(other[1].wall, other[1].isStart)).n > 0
       THEN <<bevelPointOf(w, isStart), base[2]>>
       ELSE <<base[1], bevelPointOf(w, isStart)>>

changedAt(cs, base) == {k \in 1..2 : cs[k] # base[k]}

\* C20: calculateMiteredWallCorners returns 4 corners per wall, corner1 to
\* corner4; at an end whose junction holds another wall nearly perpendicular
\* to it (absolute dot product below 0.3) the corner on the side of the
\* cross product's sign is the point at half-thickness from the junction
\* along the wall; every other corner is the unmitered one, so at most one
\* corner per end changes.
C20_BevelChangesOneCorner ==
  Beveled =>
    /\ Len(beveled) = Len(walls)
    /\ \A i \in DOMAIN walls :
         /\ beveled[i].wallId = walls[i].id
         /\ Len(beveled[i].corners) = 4
         /\ \A a \in BOOLEAN :
              /\ endCorners(beveled[i].corners, a) =
                   expectedEnd(walls[i], a, otherEntries(walls[i], a),
                               endCorners(calculateWallCorners(walls[i]), a))
              /\ Cardinality(changedAt(endCorners(beveled[i].corners, a),
                                       endCorners(calculateWallCorners(walls[i]), a))) <= 1

\* C20 witness: a wall nearly, but not exactly, perpendicular to the wall it
\* meets had corner3 of its end replaced and corner4 left unmitered.
C20_Witness ==
  /\ Beveled
  /\ Len(walls) = 2
  /\ otherEntries(walls[1], FALSE) # <<>>
  /\ dot(vectorOf(walls[1]), vectorOf(walls[2])).n # 0
  /\ beveled[1].corners[3] = bevelPointOf(walls[1], FALSE)
  /\ beveled[1].corners[3] # calculateWallCorners(walls[1])[3]
  /\ beveled[1].corners[4] = calculateWallCorners(walls[1])[4]

PerimeterTraced == op = "unified" /\ walls = <<>> /\ outerEdges # <<>> /\ pc = "done"

\* the two endpoints of edge e
endsOf(e) == {e.start, e.end}

\* polygon[i] and its cyclic successor are the two ends of one of the edges
joinedByEdge(i) ==
  \E k \in DOMAIN outerEdges :
    endsOf(outerEdges[k]) = {polygon[i], polygon[(i % Len(polygon)) + 1]}

\* the remaining edges that touch the last point of the polygon
touching == {k \in DOMAIN remainingEdges : polygon[Len(polygon)] \in endsOf(remainingEdges[k])}

\* an iteration that goes on appends the far end of a remaining edge at the
\* last point, and takes an edge starting there as it is stored
PerimeterStep ==
  (op = "unified" /\ walls = <<>> /\ pc = "trace" /\ pc' = "trace") =>
    /\ \E k \in touching :
         /\ polygon' = Append(polygon, CHOOSE q \in endsOf(remainingEdges[k]) : q # polygon[Len(polygon)])
         /\ Len(remainingEdges') = Len(remainingEdges) - 1
    /\ \A k \in touching :
         remainingEdges[k].start = polygon[Len(polygon)] => polygon'[Len(polygon')] = remainingEdges[k].end

PerimeterResult ==
  PerimeterTraced =>
    /\ Len(polygon) = Len(outerEdges)
    /\ polygon[1] = outerEdges[1].start
    /\ polygon[2] = outerEdges[1].end
    /\ Range(polygon) = UNION {endsOf(outerEdges[k]) : k \in DOMAIN outerEdges}
    /\ \A i, j \in DOMAIN polygon : polygon[i] = polygon[j] => i = j
    /\ \A i \in DOMAIN polygon : joinedByEdge(i)
    /\ \E k \in DOMAIN remainingEdges : remainingEdges[k].end = polygon[1]

\* C21: on the n edges of one simple closed loop, stored in any order and
\* direction, tracePerimeter returns the n vertices, each once, in loop
\* order from the start and end of the first edge; every step appends the
\* far end of the remaining edge at the last point, reversing it only when
\* it is stored ending there, and the trace stops at the edge that ends at
\* the first point.
C21_TraceFollowsLoop == []PerimeterResult /\ [][PerimeterStep]_vars

\* C21 witness: the L-shaped hexagon was traced through an edge stored
\* against the direction of the first edge.
C21_Witness ==
  /\ PerimeterTraced
  /\ Len(polygon) = 6
  /\ \E k \in DOMAIN outerEdges : \E i \in DOMAIN polygon :
       /\ i < Len(polygon)
       /\ outerEdges[k].end = polygon[i]
       /\ outerEdges[k].start = polygon[i + 1]

FloorBuilt == op = "floor" /\ pc = "done" /\ ~floor.isNull

\* the inner edges of the walls in the order of the angular ring
ringOf(ws) ==
  sortByAngle([i \in DOMAIN ws |->
                 innerEdge(ws[i], ws, detectJunctions(ws, JunctionTolerance),
                           calculateWallsCenter(ws))])

\* the two edges are parallel: their lines have no intersection
parallelEdges(cur, nxt) == lineIntersection(cur.start, cur.end, nxt.start, nxt.end).isNull

\* the four endpoint combinations of two edges
endPairs(cur, nxt) == {cur.start, cur.end} \X {nxt.start, nxt.end}

\* the endpoints of the nearest of the four combinations
nearestEnds(cur, nxt) ==
  UNION { {pq[1], pq[2]} : pq \in
            {pq \in endPairs(cur, nxt) : \A rs \in endPairs(cur, nxt) :
               QLe(distanceBetweenPointsSq(pq[1], pq[2]), distanceBetweenPointsSq(rs[1], rs[2]))} }

\* vertex i of the floor is the inset of an endpoint of the nearest pair
fallbackNearest(ring, i, center) ==
  floor.pts[i] \in { insetPoint(v, center, Q(DefaultInset)) :
                       v \in nearestEnds(ring[i], ring[(i % Len(ring)) + 1]) }

fallbackAll(ring, center) ==
  \A i \in DOMAIN ring :
    parallelEdges(ring[i], ring[(i % Len(ring)) + 1]) => fallbackNearest(ring, i, center)

\* C22: the floor vertex of two consecutive parallel inner edges is an
\* endpoint of the nearest of the four endpoint combinations of the two
\* edges (here after the inset every floor vertex gets).
C22_FallbackIsNearestPair ==
  FloorBuilt => fallbackAll(ringOf(walls), calculateWallsCenter(walls))

\* the junction the resolvers find for point p is junction k
lookupFinds(p, k) == junctionsNear(p) # {} /\ \A m \in junctionsNear(p) : k <= m

\* C23: for every wall end that detectJunctions clustered into a junction,
\* the first junction whose point is nearer than 2 to the endpoint is that
\* junction, in getAdjustedWallCorners and in calculateMiteredWallCorners.
C23_LookupFindsOwnJunction ==
  Detected =>
    \A k \in DOMAIN junctions : \A e \in clusterOfSeed(junctionSeeds[k]) :
      /\ k \in junctionsNear(endpoints(walls)[e].point)
      /\ lookupFinds(endpoints(walls)[e].point, k)

\* the junctions of the wall list ws, each as its set of wall ends <<id, isStart>>
junctionEnds(ws, tol) ==
  { { <<endpoints(ws)[c[m]].wallId, endpoints(ws)[c[m]].isStart>> : m \in DOMAIN c } :
      c \in Range(junctionClusters(endpoints(ws), tol)) }

\* the walls ws listed in the order f
reordered(ws, f) == [i \in DOMAIN ws |-> ws[f[i]]]

\* C24: the junctions detectJunctions returns, each taken as its set of
\* member wall ends, are the same for every order of the same walls.
C24_JunctionsIgnoreWallOrder ==
  Detected =>
    \A f \in Permutations(DOMAIN walls) :
      junctionEnds(reordered(walls, f), detectorTolerance) = junctionEnds(walls, detectorTolerance)

\* the tracing actions return what the tracers return as functions
TracersAsFunctions ==
  /\ (op = "unified" /\ walls # <<>> /\ pc = "done") => polygon = calculateUnifiedWallPolygon(group)
  /\ (op = "merge" /\ pc = "done") => polygon = mergeWallGroup(group)

MaxDepth == 1

Tools == {"select", "wall"}

PlanNames == {"Studio"}

DrawPoints == {IPt(0, 0), IPt(40, 0)}

\* the wall data a caller other than the drawing gesture passes to addWall
WallData == {[name |-> <<"Partition", 0>>, start |-> IPt(0, 0), end |-> IPt(0, 50), thickness |-> 20]}

WallUpdates == {10}

createEmptyFloorPlan(name) ==
  [isNull |-> FALSE, name |-> name, walls |-> <<>>, doors |-> <<>>, windows |-> <<>>]

\* a floor plan the store saved earlier: two walls, a door on the first and
\* a window on the second
SavedPlans ==
  {[isNull |-> FALSE, name |-> "Saved",
    walls |-> <<[id |-> 1, name |-> <<"Wall", 0>>, start |-> IPt(0, 0), end |-> IPt(40, 0),
                 thickness |-> 20, cutouts |-> <<[id |-> 3, type |-> "door"]>>],
                [id |-> 2, name |-> <<"Wall", 1>>, start |-> IPt(40, 0), end |-> IPt(40, 50),
                 thickness |-> 20, cutouts |-> <<[id |-> 4, type |-> "window"]>>]>>,
    doors |-> <<[id |-> 3, wallId |-> 1]>>,
    windows |-> <<[id |-> 4, wallId |-> 2]>>]}

idsOf(fp) ==
  {fp.walls[i].id : i \in DOMAIN fp.walls}
    \cup {fp.doors[i].id : i \in DOMAIN fp.doors}
    \cup {fp.windows[i].id : i \in DOMAIN fp.windows}

usedIds == idsOf(floorPlan) \cup UNION {idsOf(history[i]) : i \in DOMAIN history}

\* an id no item of the floor plan or of the history has: the least one
uuidv4 ==
  CHOOSE n \in 1..(Cardinality(usedIds) + 1) :
    n \notin usedIds /\ \A m \in 1..(n - 1) : m \in usedIds

wallIdsOf(fp) == {fp.walls[i].id : i \in DOMAIN fp.walls}

doorIdsOf(fp) == {fp.doors[i].id : i \in DOMAIN fp.doors}

windowIdsOf(fp) == {fp.windows[i].id : i \in DOMAIN fp.windows}

\* an id no wall, door or window has
AbsentId == 0

canUndo == historyIndex > 0

canRedo == historyIndex < Len(history) - 1

pushed(fp) == Append(SubSeq(history, 1, historyIndex + 1), fp)

trimmedNever(h) == h

trimmed(h) ==
  IF Len(h) > maxHistorySize THEN SubSeq(h, Len(h) - maxHistorySize + 1, Len(h)) ELSE h

addToHistory(fp) ==
  IF fp.isNull
  THEN UNCHANGED <<history, historyIndex>>
  ELSE /\ history' = trimmed(pushed(fp))
       /\ historyIndex' = Len(history') - 1

addWall(fp, wallData, id) ==
  IF fp.isNull THEN fp
  ELSE [fp EXCEPT !.walls = Append(@, [id |-> id, name |-> wallData.name,
                                        start |-> wallData.start, end |-> wallData.end,
                                        thickness |-> wallData.thickness, cutouts |-> <<>>])]

updateWall(fp, id, thickness) ==
  IF fp.isNull THEN fp
  ELSE [fp EXCEPT !.walls = [i \in DOMAIN @ |->
          IF i = FirstIdx(fp.walls, LAMBDA w : w.id = id)
          THEN [@[i] EXCEPT !.thickness = thickness] ELSE @[i]]]

deleteWallOnly(fp, id) ==
  IF fp.isNull THEN fp
  ELSE [fp EXCEPT !.walls = SelectSeq(@, LAMBDA w : w.id # id)]

deleteWall(fp, id) ==
  IF fp.isNull THEN fp
  ELSE [fp EXCEPT !.walls = SelectSeq(@, LAMBDA w : w.id # id),
                  !.doors = SelectSeq(@, LAMBDA d : d.wallId # id),
                  !.windows = SelectSeq(@, LAMBDA w : w.wallId # id)]

\* wall.cutouts.push(cutout) on the wall with the id, when there is one
attach(ws, wallId, cutout) ==
  [i \in DOMAIN ws |->
     IF i = FirstIdx(ws, LAMBDA w : w.id = wallId)
     THEN [ws[i] EXCEPT !.cutouts = Append(@, cutout)] ELSE ws[i]]

\* wall.cutouts = wall.cutouts.filter(c => c.id !== id) on the wall with the id
detach(ws, wallId, id) ==
  [i \in DOMAIN ws |->
     IF i = FirstIdx(ws, LAMBDA w : w.id = wallId)
     THEN [ws[i] EXCEPT !.cutouts = SelectSeq(@, LAMBDA c : c.id # id)] ELSE ws[i]]

openings(fp, kind) == IF kind = "door" THEN fp.doors ELSE fp.windows

withOpenings(fp, kind, items, ws) ==
  IF kind = "door"
  THEN [fp EXCEPT !.doors = items, !.walls = ws]
  ELSE [fp EXCEPT !.windows = items, !.walls = ws]

\* addDoor and addWindow
addOpening(fp, kind, wallId, id) ==
  IF fp.isNull THEN fp
  ELSE withOpenings(fp, kind, Append(openings(fp, kind), [id |-> id, wallId |-> wallId]),
                    attach(fp.walls, wallId, [id |-> id, type |-> kind]))

movedTo(fp, kind, k, id, wallId) ==
  IF FirstIdx(fp.walls, LAMBDA w : w.id = wallId) = 0
       \/ openings(fp, kind)[k].wallId = wallId
  THEN withOpenings(fp, kind, [openings(fp, kind) EXCEPT ![k].wallId = wallId], fp.walls)
  ELSE withOpenings(fp, kind, [openings(fp, kind) EXCEPT ![k].wallId = wallId],
                    attach(detach(fp.walls, openings(fp, kind)[k].wallId, id),
                           wallId, [id |-> id, type |-> kind]))

\* updateDoor and updateWindow with a wallId among the updates
updateOpening(fp, kind, id, wallId) ==
  IF fp.isNull \/ FirstIdx(openings(fp, kind), LAMBDA d : d.id = id) = 0 THEN fp
  ELSE movedTo(fp, kind, FirstIdx(openings(fp, kind), LAMBDA d : d.id = id), id, wallId)

removedFrom(fp, kind, k, id) ==
  withOpenings(fp, kind, SelectSeq(openings(fp, kind), LAMBDA d : d.id # id),
               IF k = 0 THEN fp.walls ELSE detach(fp.walls, openings(fp, kind)[k].wallId, id))

\* deleteDoor and deleteWindow
deleteOpening(fp, kind, id) ==
  IF fp.isNull THEN fp
  ELSE removedFrom(fp, kind, FirstIdx(openings(fp, kind), LAMBDA d : d.id = id), id)

updateDrawingAlways(drawing, end, point) == SomePoint(point)

updateDrawing(drawing, end, point) == IF drawing THEN SomePoint(point) ELSE end

\* the drawing gesture adds a wall
gestureAdds ==
  isDrawing /\ ~drawingStartPoint.isNull /\ ~drawingEndPoint.isNull /\ currentTool = "wall"

gestureWall ==
  [name |-> <<"Wall", Len(floorPlan.walls)>>, start |-> drawingStartPoint.p,
   end |-> drawingEndPoint.p, thickness |-> 20]

otherVars == <<pc, geometryVars, tolerance, simplified, lines, result, request, outcome>>

drawingVars == <<currentTool, isDrawing, drawingStartPoint, drawingEndPoint>>

Shallow == Len(history) <= MaxDepth

Recent == Len(history) <= MaxDepth + 1

\* the history of a created floor plan in which every later entry is the
\* floor plan itself
Repeating ==
  /\ ~isDrawing
  /\ currentTool = "select"
  /\ history # <<>>
  /\ history[1] = createEmptyFloorPlan("Kitchen")
  /\ \A i \in 2..Len(history) : history[i] = floorPlan

StoreInit ==
  /\ NoWalls
  /\ pc = "store"
  /\ op = "none"
  /\ polygon = <<>>
  /\ tolerance = 0
  /\ simplified = <<>>
  /\ lines = <<>>
  /\ result = NoPoint
  /\ request = NoRequest
  /\ outcome = "none"
  /\ initialState

Called(name) ==
  /\ pc = "store"
  /\ op' = name
  /\ UNCHANGED otherVars

\* the set() of an editing operation followed by its addToHistory()
Edited(name, fp) ==
  /\ Called(name)
  /\ floorPlan' = fp
  /\ addToHistory(fp)
  /\ undone' = NoFloorPlan
  /\ UNCHANGED drawingVars

CreateFloorPlan ==
  \E name \in {"Kitchen"} :
    /\ Called("createFloorPlan")
    /\ floorPlan' = createEmptyFloorPlan(name)
    /\ history' = <<floorPlan'>>
    /\ historyIndex' = 0
    /\ undone' = NoFloorPlan
    /\ UNCHANGED drawingVars

LoadFloorPlan ==
  \E fp \in SavedPlans :
    /\ Called("loadFloorPlan")
    /\ floorPlan' = fp
    /\ history' = <<fp>>
    /\ historyIndex' = 0
    /\ undone' = NoFloorPlan
    /\ UNCHANGED drawingVars

ClearFloorPlan ==
  /\ Called("clearFloorPlan")
  /\ floorPlan' = NoFloorPlan
  /\ history' = <<>>
  /\ historyIndex' = -1
  /\ currentTool' = "select"
  /\ isDrawing' = FALSE
  /\ drawingStartPoint' = NoPoint
  /\ drawingEndPoint' = NoPoint
  /\ undone' = NoFloorPlan

UpdateFloorPlanMetadata ==
  \E name \in PlanNames :
    /\ Recent
    /\ Called("updateFloorPlanMetadata")
    /\ floorPlan' = IF floorPlan.isNull THEN floorPlan ELSE [floorPlan EXCEPT !.name = name]
    /\ undone' = NoFloorPlan
    /\ UNCHANGED <<history, historyIndex, drawingVars>>

AddWall ==
  \E wallData \in WallData :
    /\ Shallow
    /\ Edited("addWall", addWall(floorPlan, wallData, uuidv4))

UpdateWall ==
  \E id \in wallIdsOf(floorPlan) \cup {AbsentId}, thickness \in WallUpdates :
    /\ Shallow \/ (id = AbsentId /\ Repeating)
    /\ Edited("updateWall", updateWall(floorPlan, id, thickness))

DeleteWall ==
  \E id \in wallIdsOf(floorPlan) :
    /\ Shallow
    /\ Edited("deleteWall", deleteWall(floorPlan, id))

AddDoor ==
  \E wallId \in wallIdsOf(floorPlan) :
    /\ Shallow
    /\ Edited("addDoor", addOpening(floorPlan, "door", wallId, uuidv4))

UpdateDoor ==
  \E id \in doorIdsOf(floorPlan), wallId \in wallIdsOf(floorPlan) :
    /\ Shallow
    /\ Edited("updateDoor", updateOpening(floorPlan, "door", id, wallId))

DeleteDoor ==
  \E id \in doorIdsOf(floorPlan) :
    /\ Shallow
    /\ Edited("deleteDoor", deleteOpening(floorPlan, "door", id))

AddWindow ==
  \E wallId \in wallIdsOf(floorPlan) :
    /\ Shallow
    /\ Edited("addWindow", addOpening(floorPlan, "window", wallId, uuidv4))

UpdateWindow ==
  \E id \in windowIdsOf(floorPlan), wallId \in wallIdsOf(floorPlan) :
    /\ Shallow
    /\ Edited("updateWindow", updateOpening(floorPlan, "window", id, wallId))

DeleteWindow ==
  \E id \in windowIdsOf(floorPlan) :
    /\ Shallow
    /\ Edited("deleteWindow", deleteOpening(floorPlan, "window", id))

SetCurrentTool ==
  \E tool \in Tools :
    /\ Recent
    /\ Called("setCurrentTool")
    /\ currentTool' = tool
    /\ undone' = NoFloorPlan
    /\ UNCHANGED <<floorPlan, history, historyIndex, isDrawing, drawingStartPoint, drawingEndPoint>>

StartDrawing ==
  \E point \in {IPt(0, 0)} :
    /\ Recent
    /\ Called("startDrawing")
    /\ isDrawing' = TRUE
    /\ drawingStartPoint' = SomePoint(point)
    /\ drawingEndPoint' = SomePoint(point)
    /\ undone' = NoFloorPlan
    /\ UNCHANGED <<floorPlan, history, historyIndex, currentTool>>

UpdateDrawing ==
  \E point \in DrawPoints :
    /\ Recent
    /\ Called("updateDrawing")
    /\ drawingEndPoint' = updateDrawing(isDrawing, drawingEndPoint, point)
    /\ undone' = NoFloorPlan
    /\ UNCHANGED <<floorPlan, history, historyIndex, currentTool, isDrawing, drawingStartPoint>>

FinishDrawing ==
  /\ IF gestureAdds THEN Shallow ELSE Recent
  /\ Called("finishDrawing")
  /\ floorPlan' = IF gestureAdds THEN addWall(floorPlan, gestureWall, uuidv4) ELSE floorPlan
  /\ IF gestureAdds THEN addToHistory(floorPlan') ELSE UNCHANGED <<history, historyIndex>>
  /\ isDrawing' = FALSE
  /\ drawingStartPoint' = NoPoint
  /\ drawingEndPoint' = NoPoint
  /\ undone' = NoFloorPlan
  /\ UNCHANGED currentTool

CancelDrawing ==
  /\ Recent
  /\ Called("cancelDrawing")
  /\ isDrawing' = FALSE
  /\ drawingStartPoint' = NoPoint
  /\ drawingEndPoint' = NoPoint
  /\ undone' = NoFloorPlan
  /\ UNCHANGED <<floorPlan, history, historyIndex, currentTool>>

\* undone keeps the floor plan an undo replaced until the next operation
Undo ==
  /\ Called("undo")
  /\ IF canUndo
     THEN /\ historyIndex' = historyIndex - 1
          /\ floorPlan' = history[historyIndex' + 1]
          /\ undone' = floorPlan
     ELSE /\ undone' = NoFloorPlan
          /\ UNCHANGED <<floorPlan, historyIndex>>
  /\ UNCHANGED <<history, drawingVars>>

Redo ==
  /\ Called("redo")
  /\ IF canRedo
     THEN /\ historyIndex' = historyIndex + 1
          /\ floorPlan' = history[historyIndex' + 1]
     ELSE UNCHANGED <<floorPlan, historyIndex>>
  /\ undone' = NoFloorPlan
  /\ UNCHANGED <<history, drawingVars>>

StoreNext ==
  \/ CreateFloorPlan \/ LoadFloorPlan \/ ClearFloorPlan \/ UpdateFloorPlanMetadata
  \/ AddWall \/ UpdateWall \/ DeleteWall
  \/ AddDoor \/ UpdateDoor \/ DeleteDoor
  \/ AddWindow \/ UpdateWindow \/ DeleteWindow
  \/ SetCurrentTool \/ StartDrawing \/ UpdateDrawing \/ FinishDrawing \/ CancelDrawing
  \/ Undo \/ Redo

StoreSpec == StoreInit /\ [][StoreNext]_vars

(***************************************************************************)
(* Claims about the floor-plan store                                       *)
(***************************************************************************)
\* C26: whenever floorPlan is non-null, 0 <= historyIndex <= history.length - 1
\* and history.length <= maxHistorySize; when floorPlan is null, the history
\* is empty and historyIndex is -1.
C26_HistoryBounds ==
  IF floorPlan.isNull
  THEN history = <<>> /\ historyIndex = -1
  ELSE /\ 0 <= historyIndex
       /\ historyIndex <= Len(history) - 1
       /\ Len(history) <= maxHistorySize

\* C26 witness: the history is full, its oldest entry (the created, empty
\* floor plan) has been dropped, and an undo has stepped back in it.
C26_Witness ==
  /\ op = "undo"
  /\ Len(history) = maxHistorySize
  /\ history[1].name = "Kitchen"
  /\ history[1].walls # <<>>
  /\ canRedo

EditOps ==
  {"addWall", "updateWall", "deleteWall", "addDoor", "updateDoor", "deleteDoor",
   "addWindow", "updateWindow", "deleteWindow"}

\* a redo directly after an undo that stepped back gives the floor plan the
\* undo replaced
RedoRestores == (op' = "redo" /\ ~undone.isNull) => floorPlan' = undone

NoRedoAfterEdit == op \in EditOps => ~canRedo

\* C27: undo immediately followed by redo restores floorPlan to the value it
\* had before the undo, after any sequence of store operations including
\* updateFloorPlanMetadata; and after every operation that edits walls, doors
\* or windows canRedo() is false.
C27_UndoRedoRestores == [][RedoRestores]_vars /\ []NoRedoAfterEdit

attachedTo(fp, kind, wallId) ==
  {openings(fp, kind)[i].id : i \in {k \in DOMAIN openings(fp, kind) : openings(fp, kind)[k].wallId = wallId}}

cutoutIds(wall, kind) ==
  {wall.cutouts[i].id : i \in {k \in DOMAIN wall.cutouts : wall.cutouts[k].type = kind}}

cutoutsMatch(fp, wall) ==
  /\ cutoutIds(wall, "door") = attachedTo(fp, "door", wall.id)
  /\ cutoutIds(wall, "window") = attachedTo(fp, "window", wall.id)
  /\ \A i, j \in DOMAIN wall.cutouts : wall.cutouts[i].id = wall.cutouts[j].id => i = j

\* C28: every door and every window references a wall present in
\* floorPlan.walls, and each wall's cutouts are exactly one cutout per door or
\* window attached to that wall, with the same id.
C28_OpeningsMatchCutouts ==
  /\ \A i \in DOMAIN floorPlan.doors : floorPlan.doors[i].wallId \in wallIdsOf(floorPlan)
  /\ \A i \in DOMAIN floorPlan.windows : floorPlan.windows[i].wallId \in wallIdsOf(floorPlan)
  /\ \A i \in DOMAIN floorPlan.walls : cutoutsMatch(floorPlan, floorPlan.walls[i])

\* C28 witness: a door was moved to the wall that carries a window, the move
\* was undone and redone, and the wall has both cutouts.
C28_Witness ==
  /\ op = "redo"
  /\ \E i \in DOMAIN floorPlan.walls :
       /\ Len(floorPlan.walls[i].cutouts) = 2
       /\ attachedTo(floorPlan, "door", floorPlan.walls[i].id) # {}
       /\ attachedTo(floorPlan, "window", floorPlan.walls[i].id) # {}

DrawingIdle == ~isDrawing /\ drawingStartPoint.isNull /\ drawingEndPoint.isNull

DrawingOps == {"startDrawing", "updateDrawing", "finishDrawing", "cancelDrawing"}

PointsWhileDrawing == isDrawing <=> (~drawingStartPoint.isNull /\ ~drawingEndPoint.isNull)

IdleAfterGesture == op \in {"finishDrawing", "cancelDrawing"} => DrawingIdle

UpdateNeedsDrawing ==
  (op' = "updateDrawing" /\ ~isDrawing)
    => UNCHANGED <<floorPlan, history, historyIndex, currentTool, isDrawing,
                   drawingStartPoint, drawingEndPoint>>

OnlyFinishAddsWall ==
  (op' \in DrawingOps /\ floorPlan' # floorPlan)
    => (op' = "finishDrawing" /\ isDrawing /\ currentTool = "wall")

\* C29: isDrawing is true if and only if both drawing points are non-null;
\* finishDrawing and cancelDrawing leave the store idle; updateDrawing changes
\* nothing when not drawing; the drawing gesture adds a wall only by
\* finishDrawing called while isDrawing with currentTool = "wall".
C29_DrawingGesture ==
  /\ []PointsWhileDrawing
  /\ []IdleAfterGesture
  /\ [][UpdateNeedsDrawing]_vars
  /\ [][OnlyFinishAddsWall]_vars

\* C29 witness: finishDrawing has added the wall drawn from (0,0) to (40,0) to
\* a created floor plan and left the store idle.
C29_Witness ==
  /\ op = "finishDrawing"
  /\ DrawingIdle
  /\ floorPlan.name = "Kitchen"
  /\ Len(floorPlan.walls) = 1
  /\ floorPlan.walls[1].name = <<"Wall", 0>>
  /\ floorPlan.walls[1].start = IPt(0, 0)
  /\ floorPlan.walls[1].end = IPt(40, 0)

\* C30: every wall the drawing gesture adds to the floor plan has distinct
\* start and end points, so no wall of the store has length zero.
C30_GestureWallsHaveLength ==
  \A i \in DOMAIN floorPlan.walls : floorPlan.walls[i].start # floorPlan.walls[i].end

====
